---- MODULE Spec2Model ----
(***************************************************************************)
(* Model of the CameraRecorder component of the mock-interview frontend:   *)
(* the periodic sampler detectPhone and the edge-density detector          *)
(* detectRectangularObject that it runs over one RGBA video frame.         *)
(***************************************************************************)
EXTENDS Integers, Sequences, FiniteSets, TLC

(***************************************************************************)
(* Bounds of the model.                                                    *)
(*   MaxFlat           largest side of a flat or checkerboard frame        *)
(*   MaxW x MaxH       largest frame holding a single bright pixel         *)
(*   RectW x RectH     largest frame holding a rectangular object          *)
(*   MaxObj            largest side of a rectangular object                *)
(*   SampleW x SampleH largest frame shown to the sampler                  *)
(*   MaxTimers         most hide-toast timeouts pending at once            *)
(*   MaxPending        most getUserMedia requests in flight                *)
(*   MaxStreams        MediaStream objects told apart                      *)
(*   MaxIntervals      interval ids told apart                             *)
(*   MaxClock          last millisecond of the server's clock              *)
(*   MaxShort          longest AI question array with invalid entries      *)
(*   MaxLong           longest AI question array                           *)
(*   RandomSteps       values of Math.random() told apart: k / RandomSteps *)
(*   MaxEvalAnswers    most answers of a session while the AI evaluates    *)
(*   MaxAnswers        most answers of a session in the results            *)
(***************************************************************************)
MaxFlat == 10
MaxW == 5
MaxH == 10
RectW == 4
RectH == 5
MaxObj == 2
SampleW == 3
SampleH == 3
MaxTimers == 2
MaxPending == 2
MaxStreams == 2
MaxIntervals == 2
MaxClock == 2
MaxShort == 2
MaxLong == 8
RandomSteps == 4
MaxEvalAnswers == 2
MaxAnswers == 4
\* the longest text typed into the custom topic field
MaxTopic == 4
\* final recognition results delivered by the browser
MaxFinals == 3
\* questions put to the candidate
MaxAsked == 2
\* recognition objects stopped and not yet ended
MaxEnding == 2

(***************************************************************************)
(* Program constants.                                                      *)
(***************************************************************************)
EdgeThreshold == 50
MaxChannel == 255
Channels == 4

(***************************************************************************)
(* Colours of the scenes shown to the camera: <<red, green, blue, alpha>>. *)
(***************************************************************************)
Black == <<0, 0, 0, 255>>
Dim25 == <<25, 25, 25, 255>>
Dim26 == <<26, 26, 26, 255>>
Gray128 == <<128, 128, 128, 255>>
White == <<255, 255, 255, 255>>
Cyan == <<0, 255, 255, 128>>

FlatColours == {Black, Dim25, Gray128, White, Cyan}

ObjColours == {Dim25, Dim26, White, Cyan}

NoObj == [kind |-> "none", x0 |-> 0, y0 |-> 0, x1 |-> 0, y1 |-> 0, colour |-> Black]

VARIABLES
  video,           \* the frame the <video> element currently shows
  thisBinding,     \* what `this` is bound to inside the component's arrow functions
  phoneDetected,   \* useState(false)
  showPhoneToast,  \* useState(false)
  hideTimers,      \* pending setTimeout(..., 5000) callbacks
  canvas,          \* width and height of the hidden <canvas>
  tick,            \* outcome of the latest detectPhone run
  det,             \* DetSpec: outcome of the detector on the current frame
  pure,            \* PureSpec: the latest detector call and a remembered earlier one
  loop,            \* LoopSpec: the detector's locals while it runs
  cam,             \* CamSpec: camera permission, stream and detection interval
  srv,             \* SrvSpec: the server's session store and its latest response
  app,             \* AppSpec: the state of the App component
  dom,             \* DomSpec: the state of the DomainSelection component
  sp               \* SpeechSpec: InterviewQuestion and its SpeechRecognition

samplerVars == <<thisBinding, phoneDetected, showPhoneToast, hideTimers, canvas, tick>>

webVars == <<cam, srv, app, dom, sp>>

vars ==
  <<video, thisBinding, phoneDetected, showPhoneToast, hideTimers, canvas, tick,
    det, pure, loop, cam, srv, app, dom, sp>>

(***************************************************************************)
(* The frame: colour of the pixel (x, y) of the scene, and the ImageData   *)
(* that drawImage + getImageData read back from it: R, G, B, A per pixel,  *)
(* row-major, no padding.  data[i] of the code is data[i + 1] here.        *)
(***************************************************************************)
PixelColour(v, x, y) ==
  IF v.obj.kind = "rect" /\ v.obj.x0 <= x /\ x <= v.obj.x1
                         /\ v.obj.y0 <= y /\ y <= v.obj.y1
    THEN v.obj.colour
    ELSE IF v.obj.kind = "checker"
      THEN (IF (x + y) % 2 = 0 THEN <<0, 0, 0, 255>> ELSE <<255, 255, 255, 255>>)
      ELSE v.bg

getImageData(v) ==
  [width |-> v.videoWidth,
   height |-> v.videoHeight,
   data |-> [i \in 1..(Channels * v.videoWidth * v.videoHeight) |->
               PixelColour(v, ((i - 1) \div Channels) % v.videoWidth,
                              ((i - 1) \div Channels) \div v.videoWidth)[((i - 1) % Channels) + 1]]]

(***************************************************************************)
(* JavaScript numbers.  data[i] outside the buffer is undefined and turns  *)
(* the arithmetic into NaN, and every comparison with NaN is false.        *)
(* Math.sqrt of a non-negative integer s is given by its integer part and  *)
(* whether s is a perfect square, which decides every comparison of the    *)
(* correctly rounded root with an integer.                                 *)
(***************************************************************************)
InBuffer(data, i) == (i + 1) \in DOMAIN data

Read(data, i) == IF InBuffer(data, i) THEN data[i + 1] ELSE 0

MaxMagnitude == 2 * Channels * MaxChannel

RECURSIVE ISqrtIter(_, _, _)
ISqrtIter(s, lo, hi) ==
  IF lo >= hi THEN lo
  ELSE LET mid == (lo + hi + 1) \div 2
       IN IF mid * mid <= s THEN ISqrtIter(s, mid, hi) ELSE ISqrtIter(s, lo, mid - 1)

MathSqrt(s) ==
  LET r == ISqrtIter(s, 0, MaxMagnitude)
  IN [floor |-> r, exact |-> (r * r = s)]

SqrtGreater(m, t) == m.floor > t \/ (m.floor = t /\ ~m.exact)

(***************************************************************************)
(* detectRectangularObject: the Sobel pass over the red channel.           *)
(***************************************************************************)
Idx(width, x, y) == (y * width + x) * Channels

(* the row loop running up to the last row *)
OuterCond_LastRow(y, height) == y < height

(* for (let y = 1; y < height - 1; y++) *)
OuterCond(y, height) == y < height - 1

(* the column loop running up to the last column *)
InnerCond_LastColumn(x, width) == x < width

(* for (let x = 1; x < width - 1; x++) *)
InnerCond(x, width) == x < width - 1

LoopYs(height) == {y \in 1..height : OuterCond(y, height)}

LoopXs(width) == {x \in 1..width : InnerCond(x, width)}

GxReads(width, x, y) ==
  {Idx(width, x - 1, y - 1), Idx(width, x + 1, y - 1),
   Idx(width, x - 1, y), Idx(width, x + 1, y),
   Idx(width, x - 1, y + 1), Idx(width, x + 1, y + 1)}

GyReads(width, x, y) ==
  {Idx(width, x - 1, y - 1), Idx(width, x, y - 1), Idx(width, x + 1, y - 1),
   Idx(width, x - 1, y + 1), Idx(width, x, y + 1), Idx(width, x + 1, y + 1)}

GrayReads(width, x, y) ==
  {Idx(width, x, y), Idx(width, x, y) + 1, Idx(width, x, y) + 2}

ReadsAt(width, x, y) ==
  GrayReads(width, x, y) \cup GxReads(width, x, y) \cup GyReads(width, x, y)

Gray3(data, width, x, y) ==
  Read(data, Idx(width, x, y)) + Read(data, Idx(width, x, y) + 1)
    + Read(data, Idx(width, x, y) + 2)

(* the side columns all weighted 1: the factor 2 of the middle row is lost *)
Gx_Unweighted(data, width, x, y) ==
  (0 - Read(data, Idx(width, x - 1, y - 1))) + Read(data, Idx(width, x + 1, y - 1))
  + (0 - Read(data, Idx(width, x - 1, y))) + Read(data, Idx(width, x + 1, y))
  + (0 - Read(data, Idx(width, x - 1, y + 1))) + Read(data, Idx(width, x + 1, y + 1))

(* the gradient taken over the grayscale mean instead of the red channel *)
Gx_Gray(data, width, x, y) ==
  (0 - (Gray3(data, width, x - 1, y - 1) \div 3)) + (Gray3(data, width, x + 1, y - 1) \div 3)
  + (0 - 2 * (Gray3(data, width, x - 1, y) \div 3)) + 2 * (Gray3(data, width, x + 1, y) \div 3)
  + (0 - (Gray3(data, width, x - 1, y + 1) \div 3)) + (Gray3(data, width, x + 1, y + 1) \div 3)

(* a forward difference: the left column is read at x instead of x - 1 *)
Gx_Forward(data, width, x, y) ==
  (0 - Read(data, Idx(width, x, y - 1))) + Read(data, Idx(width, x + 1, y - 1))
  + (0 - 2 * Read(data, Idx(width, x, y))) + 2 * Read(data, Idx(width, x + 1, y))
  + (0 - Read(data, Idx(width, x, y + 1))) + Read(data, Idx(width, x + 1, y + 1))

Gx(data, width, x, y) ==
  (0 - Read(data, Idx(width, x - 1, y - 1))) + Read(data, Idx(width, x + 1, y - 1))
  + (0 - 2 * Read(data, Idx(width, x - 1, y))) + 2 * Read(data, Idx(width, x + 1, y))
  + (0 - Read(data, Idx(width, x - 1, y + 1))) + Read(data, Idx(width, x + 1, y + 1))

(* the first term added instead of subtracted *)
Gy_SignSlip(data, width, x, y) ==
  Read(data, Idx(width, x - 1, y - 1)) - 2 * Read(data, Idx(width, x, y - 1))
  - Read(data, Idx(width, x + 1, y - 1))
  + Read(data, Idx(width, x - 1, y + 1)) + 2 * Read(data, Idx(width, x, y + 1))
  + Read(data, Idx(width, x + 1, y + 1))

(* the upper middle term read at row y instead of row y - 1 *)
Gy_Centre(data, width, x, y) ==
  (0 - Read(data, Idx(width, x - 1, y - 1))) - 2 * Read(data, Idx(width, x, y))
  - Read(data, Idx(width, x + 1, y - 1))
  + Read(data, Idx(width, x - 1, y + 1)) + 2 * Read(data, Idx(width, x, y + 1))
  + Read(data, Idx(width, x + 1, y + 1))

Gy(data, width, x, y) ==
  (0 - Read(data, Idx(width, x - 1, y - 1))) - 2 * Read(data, Idx(width, x, y - 1))
  - Read(data, Idx(width, x + 1, y - 1))
  + Read(data, Idx(width, x - 1, y + 1)) + 2 * Read(data, Idx(width, x, y + 1))
  + Read(data, Idx(width, x + 1, y + 1))

GradientIsNumber(data, width, x, y) ==
  \A i \in GxReads(width, x, y) \cup GyReads(width, x, y) : InBuffer(data, i)

IsEdge(data, width, x, y) ==
  /\ GradientIsNumber(data, width, x, y)
  /\ LET gx == Gx(data, width, x, y)
         gy == Gy(data, width, x, y)
         magnitude == MathSqrt(gx * gx + gy * gy)
     IN SqrtGreater(magnitude, EdgeThreshold)

EdgePixels(imageData) ==
  {p \in LoopXs(imageData.width) \X LoopYs(imageData.height) :
     IsEdge(imageData.data, imageData.width, p[1], p[2])}

(* the count a module-level edgeCount would carry over from the last call *)
InitialEdgeCount_Stale == pure.lastCount

(* let edgeCount = 0 *)
InitialEdgeCount == 0

EdgeCountOf(imageData) == InitialEdgeCount + Cardinality(EdgePixels(imageData))

ReadIndices(imageData) ==
  UNION {ReadsAt(imageData.width, p[1], p[2]) :
         p \in LoopXs(imageData.width) \X LoopYs(imageData.height)}

(* edgeCount / (width * height): a quotient of two integers; 0 / 0 is NaN. *)
Quotient(num, den) == [num |-> num, den |-> den]

RatioLow == [num |-> 2, den |-> 100]

RatioHigh == [num |-> 15, den |-> 100]

RatioIsNaN(r) == r.den = 0

(* the lower bound of the band taken inclusive *)
RatioGreater_Inclusive(r, c) == ~RatioIsNaN(r) /\ r.num * c.den >= c.num * r.den

RatioGreater(r, c) == ~RatioIsNaN(r) /\ r.num * c.den > c.num * r.den

RatioLess(r, c) == ~RatioIsNaN(r) /\ r.num * c.den < c.num * r.den

InBand(edgeRatio) == RatioGreater(edgeRatio, RatioLow) /\ RatioLess(edgeRatio, RatioHigh)

EdgeRatio(imageData) ==
  Quotient(EdgeCountOf(imageData), imageData.width * imageData.height)

detectRectangularObject(imageData) ==
  LET edgeRatio == EdgeRatio(imageData)
  IN InBand(edgeRatio)

(* the buffer after the call: the detector assigns to no element of data *)
dataAfterDetect(imageData) == imageData.data

(***************************************************************************)
(* The scenes in front of the camera: a flat background, optionally with   *)
(* one rectangular object of at most maxobj x maxobj pixels, or a          *)
(* checkerboard of black and white 1-pixel cells.  The frame size changes  *)
(* by one column or one row at a time.                                     *)
(***************************************************************************)
FlatVideo(w, h, bg) == [videoWidth |-> w, videoHeight |-> h, bg |-> bg, obj |-> NoObj]

IsFlat(v) == v.obj.kind = "none"

Resized(v, maxw, maxh) ==
  {FlatVideo(w, v.videoHeight, v.bg) :
     w \in {v.videoWidth - 1, v.videoWidth + 1} \cap (0..maxw)}
  \cup
  {FlatVideo(v.videoWidth, h, v.bg) :
     h \in {v.videoHeight - 1, v.videoHeight + 1} \cap (0..maxh)}

Rects(w, h, maxobj) ==
  {[kind |-> "rect", x0 |-> x0, y0 |-> y0, x1 |-> x1, y1 |-> y1, colour |-> c] :
     x0 \in 0..(w - 1), y0 \in 0..(h - 1),
     x1 \in 0..(w - 1), y1 \in 0..(h - 1), c \in ObjColours}

RectFits(r, maxobj) ==
  /\ r.x0 <= r.x1 /\ r.x1 - r.x0 < maxobj
  /\ r.y0 <= r.y1 /\ r.y1 - r.y0 < maxobj

BrightPixels(w, h) ==
  {[kind |-> "rect", x0 |-> x, y0 |-> y, x1 |-> x, y1 |-> y, colour |-> White] :
     x \in 0..(w - 1), y \in 0..(h - 1)}

Checker == [NoObj EXCEPT !.kind = "checker"]

NotCalled == [called |-> FALSE, present |-> FALSE, edgeCount |-> 0]

NoTick == [outcome |-> "none", present |-> FALSE, parity |-> 0]

NoCall == [called |-> FALSE, present |-> FALSE]

PureIdle ==
  [memo |-> [called |-> FALSE, frame |-> FlatVideo(0, 0, Black), present |-> FALSE],
   last |-> NoCall,
   lastCount |-> 0,
   intact |-> TRUE]

LoopIdle ==
  [pc |-> "idle", imageData |-> [width |-> 0, height |-> 0, data |-> <<>>],
   y |-> 0, x |-> 0, edgeCount |-> 0, readsOk |-> TRUE, present |-> FALSE]

CamIdle ==
  [mounted |-> FALSE, syncSetState |-> FALSE, hasPermission |-> "null", stream |-> 0,
   pending |-> 0, srcObject |-> 0, intervals |-> {}, intervalRef |-> 0, period |-> 0,
   live |-> {}]

Absent == [kind |-> "absent", items |-> <<>>]

NoEvaluation == [score |-> 0, source |-> "none", wordCount |-> 0]

NoResults ==
  [totalQuestions |-> 0, answeredQuestions |-> 0, averageScore |-> 0, percentage |-> 0]

NoResponse ==
  [route |-> "none", status |-> 0, sessionId |-> 0, questions |-> Absent,
   evaluation |-> NoEvaluation, results |-> NoResults]

NoRequest ==
  LET u == [t |-> "undefined", pad |-> 0, core |-> "", n |-> 0]
  IN [domain |-> u, failure |-> "none",
      body |-> [sessionId |-> u, questionId |-> u, answer |-> u, question |-> u]]

SrvIdle ==
  [model |-> FALSE, now |-> 1, sessions |-> <<>>, req |-> NoRequest, res |-> NoResponse]

(* the App's state after useState; results null is isNull, sessionId '' is *)
(* 0.  handler and fetched tell the handler that ran last and how each of  *)
(* its fetches ended.                                                      *)
NullResults == [isNull |-> TRUE, data |-> NoResults]

AppIdle ==
  [appState |-> "domain-selection", isLoading |-> FALSE, error |-> "",
   sessionId |-> 0, questions |-> <<>>, currentQuestionIndex |-> 0,
   results |-> NullResults, handler |-> "none", fetched |-> <<>>]

(* DomainSelection after useState.  The custom text is its count of       *)
(* surrounding blanks (pad) and the length of what trim() leaves (len).    *)
(* handler is the handler that ran last, called the domain it handed to    *)
(* onDomainSelect ("" when it made no call).                               *)
NoText == <<>>
NotInvoked == [made |-> FALSE, preset |-> "", text |-> NoText]

DomIdle ==
  [selectedDomain |-> "", customDomain |-> NoText, useCustomDomain |-> FALSE,
   error |-> "", isLoading |-> FALSE, handler |-> "none", called |-> NotInvoked]

(* recognitionRef.current before the effect has run *)
NoRecognition ==
  [status |-> "null", instance |-> 0, isListening |-> FALSE, finalTranscript |-> <<>>]
(* InterviewQuestion before the question is typed out: SpeechRecognition   *)
(* is not rendered.  Texts are sequences of words, a word being the number *)
(* of the final result that carried it; interimTranscript, transcript and  *)
(* error of SpeechRecognition are shown and never read back.               *)
SpIdle ==
  [question |-> 1, isLoading |-> FALSE, currentAnswer |-> <<>>,
   questionAnimationComplete |-> FALSE, instance |-> 0,
   isListening |-> FALSE, finalTranscript |-> <<>>, recognition |-> NoRecognition,
   ending |-> <<>>, timers |-> {}, spoken |-> 0, heard |-> <<>>, boundary |-> 0,
   sinceFinal |-> "none", handler |-> "none"]

WebIdle ==
  /\ cam = CamIdle
  /\ srv = SrvIdle
  /\ app = AppIdle
  /\ dom = DomIdle
  /\ sp = SpIdle

DefaultCanvas == [width |-> 300, height |-> 150]

SamplerInit ==
  /\ thisBinding \in {"undefined", "exports"}
  /\ phoneDetected = FALSE
  /\ showPhoneToast = FALSE
  /\ hideTimers = 0
  /\ canvas = DefaultCanvas
  /\ tick = NoTick

(***************************************************************************)
(* DetSpec: the detector applied to the frames of a bounded family.        *)
(***************************************************************************)
DetInit ==
  /\ \E bg \in FlatColours : video = FlatVideo(0, 0, bg)
  /\ SamplerInit
  /\ thisBinding = "undefined"
  /\ det = NotCalled
  /\ pure = PureIdle
  /\ loop = LoopIdle
  /\ WebIdle

DetResize ==
  /\ IsFlat(video)
  /\ video' \in Resized(video, MaxFlat, MaxFlat)
  /\ det' = NotCalled
  /\ UNCHANGED <<samplerVars, pure, loop, webVars>>

DetObjectAppears ==
  /\ IsFlat(video)
  /\ video.bg = Black
  /\ video.videoWidth <= RectW
  /\ video.videoHeight <= RectH
  /\ \E r \in Rects(video.videoWidth, video.videoHeight, MaxObj) :
       /\ RectFits(r, MaxObj)
       /\ video' = [video EXCEPT !.obj = r]
  /\ det' = NotCalled
  /\ UNCHANGED <<samplerVars, pure, loop, webVars>>

DetBrightPixel ==
  /\ IsFlat(video)
  /\ video.bg = Black
  /\ video.videoWidth <= MaxW
  /\ video.videoHeight <= MaxH
  /\ \E r \in BrightPixels(video.videoWidth, video.videoHeight) :
       video' = [video EXCEPT !.obj = r]
  /\ det' = NotCalled
  /\ UNCHANGED <<samplerVars, pure, loop, webVars>>

DetCheckerboard ==
  /\ IsFlat(video)
  /\ video.bg = Black
  /\ video' = [video EXCEPT !.obj = Checker]
  /\ det' = NotCalled
  /\ UNCHANGED <<samplerVars, pure, loop, webVars>>

DetCall ==
  /\ ~det.called
  /\ LET imageData == getImageData(video)
     IN det' = [called |-> TRUE,
                present |-> detectRectangularObject(imageData),
                edgeCount |-> EdgeCountOf(imageData)]
  /\ UNCHANGED <<video, samplerVars, pure, loop, webVars>>

DetNext ==
  \/ DetResize
  \/ DetObjectAppears
  \/ DetBrightPixel
  \/ DetCheckerboard
  \/ DetCall

DetSpec == DetInit /\ [][DetNext]_vars

(***************************************************************************)
(* PureSpec: a sequence of detector calls on changing frames.  pure.last   *)
(* is the call made on the frame now shown, pure.memo one of the earlier   *)
(* calls, pure.intact whether the latest call left its buffer as it was.   *)
(***************************************************************************)
PureInit ==
  /\ video = FlatVideo(0, 0, Black)
  /\ SamplerInit
  /\ thisBinding = "undefined"
  /\ det = NotCalled
  /\ pure = PureIdle
  /\ loop = LoopIdle
  /\ WebIdle

PureResize ==
  /\ IsFlat(video)
  /\ video' \in Resized(video, SampleW, SampleH)
  /\ pure' = [pure EXCEPT !.last = NoCall]
  /\ UNCHANGED <<samplerVars, det, loop, webVars>>

PureObjectAppears ==
  /\ IsFlat(video)
  /\ \E r \in BrightPixels(video.videoWidth, video.videoHeight) :
       video' = [video EXCEPT !.obj = r]
  /\ pure' = [pure EXCEPT !.last = NoCall]
  /\ UNCHANGED <<samplerVars, det, loop, webVars>>

PureObjectLeaves ==
  /\ ~IsFlat(video)
  /\ video' = [video EXCEPT !.obj = NoObj]
  /\ pure' = [pure EXCEPT !.last = NoCall]
  /\ UNCHANGED <<samplerVars, det, loop, webVars>>

PureCall ==
  /\ LET imageData == getImageData(video)
         present == detectRectangularObject(imageData)
         call == [called |-> TRUE, frame |-> video, present |-> present]
     IN /\ \E m \in {pure.memo, call} :
             pure' = [memo |-> m,
                      last |-> [called |-> TRUE, present |-> present],
                      lastCount |-> EdgeCountOf(imageData),
                      intact |-> (dataAfterDetect(imageData) = imageData.data)]
  /\ UNCHANGED <<video, samplerVars, det, loop, webVars>>

PureNext ==
  \/ PureResize
  \/ PureObjectAppears
  \/ PureObjectLeaves
  \/ PureCall

PureSpec == PureInit /\ [][PureNext]_vars

(***************************************************************************)
(* LoopSpec: the two nested for loops of detectRectangularObject, one      *)
(* test or one loop body per step.  The function runs to completion once   *)
(* entered: the frame changes only between calls.                          *)
(***************************************************************************)
LoopInit ==
  /\ video = FlatVideo(0, 0, Black)
  /\ SamplerInit
  /\ thisBinding = "undefined"
  /\ det = NotCalled
  /\ pure = PureIdle
  /\ loop = LoopIdle
  /\ WebIdle

LoopBetweenCalls == loop.pc \in {"idle", "returned"}

LoopResize ==
  /\ LoopBetweenCalls
  /\ IsFlat(video)
  /\ video' \in Resized(video, MaxFlat, MaxFlat)
  /\ loop' = LoopIdle
  /\ UNCHANGED <<samplerVars, det, pure, webVars>>

LoopBrightPixel ==
  /\ LoopBetweenCalls
  /\ IsFlat(video)
  /\ video.videoWidth <= RectW
  /\ video.videoHeight <= RectH
  /\ \E r \in BrightPixels(video.videoWidth, video.videoHeight) :
       video' = [video EXCEPT !.obj = r]
  /\ loop' = LoopIdle
  /\ UNCHANGED <<samplerVars, det, pure, webVars>>

LoopCheckerboard ==
  /\ LoopBetweenCalls
  /\ IsFlat(video)
  /\ video' = [video EXCEPT !.obj = Checker]
  /\ loop' = LoopIdle
  /\ UNCHANGED <<samplerVars, det, pure, webVars>>

(* detectRectangularObject(imageData): let edgeCount = 0; y = 1 *)
LoopEnter ==
  /\ loop.pc = "idle"
  /\ loop' = [LoopIdle EXCEPT !.pc = "outer", !.imageData = getImageData(video),
                              !.y = 1, !.edgeCount = InitialEdgeCount]
  /\ UNCHANGED <<video, samplerVars, det, pure, webVars>>

(* y < height - 1 ? x = 1 : leave the loop *)
LoopOuter ==
  /\ loop.pc = "outer"
  /\ IF OuterCond(loop.y, loop.imageData.height)
       THEN loop' = [loop EXCEPT !.pc = "inner", !.x = 1]
       ELSE loop' = [loop EXCEPT !.pc = "ratio"]
  /\ UNCHANGED <<video, samplerVars, det, pure, webVars>>

(* x < width - 1 ? loop body; x++ : y++ *)
LoopInner ==
  /\ loop.pc = "inner"
  /\ IF InnerCond(loop.x, loop.imageData.width)
       THEN loop' = [loop EXCEPT
              !.edgeCount = IF IsEdge(loop.imageData.data, loop.imageData.width,
                                      loop.x, loop.y)
                              THEN loop.edgeCount + 1 ELSE loop.edgeCount,
              !.readsOk = loop.readsOk
                          /\ \A i \in ReadsAt(loop.imageData.width, loop.x, loop.y) :
                               InBuffer(loop.imageData.data, i),
              !.x = loop.x + 1]
       ELSE loop' = [loop EXCEPT !.pc = "outer", !.y = loop.y + 1]
  /\ UNCHANGED <<video, samplerVars, det, pure, webVars>>

(* return edgeRatio > 0.02 && edgeRatio < 0.15 *)
LoopReturn ==
  /\ loop.pc = "ratio"
  /\ loop' = [loop EXCEPT
       !.pc = "returned",
       !.present = InBand(Quotient(loop.edgeCount,
                                   loop.imageData.width * loop.imageData.height))]
  /\ UNCHANGED <<video, samplerVars, det, pure, webVars>>

LoopStep == LoopOuter \/ LoopInner \/ LoopReturn

LoopNext ==
  \/ LoopResize
  \/ LoopBrightPixel
  \/ LoopCheckerboard
  \/ LoopEnter
  \/ LoopOuter
  \/ LoopInner
  \/ LoopReturn

LoopSpec == LoopInit /\ [][LoopNext]_vars /\ WF_vars(LoopStep)

(***************************************************************************)
(* Spec: the CameraRecorder sampler.  The <video> element shows the frames *)
(* of a small family; detectPhone runs on the 2-second interval while the  *)
(* component is rendered with its <video> and <canvas> (both refs set).    *)
(*                                                                         *)
(* `this` inside the component's arrow functions is the `this` of the      *)
(* module: undefined in an ES module, the exports object when the module   *)
(* is compiled to CommonJS.  Reading this.phoneDetected throws a TypeError *)
(* in the first case and yields undefined in the second.                   *)
(***************************************************************************)
Init ==
  /\ video = FlatVideo(0, 0, Black)
  /\ SamplerInit
  /\ det = NotCalled
  /\ pure = PureIdle
  /\ loop = LoopIdle
  /\ WebIdle

VideoResized ==
  /\ IsFlat(video)
  /\ video' \in Resized(video, SampleW, SampleH)
  /\ UNCHANGED <<samplerVars, det, pure, loop, webVars>>

ObjectAppears ==
  /\ IsFlat(video)
  /\ \E r \in BrightPixels(video.videoWidth, video.videoHeight) :
       video' = [video EXCEPT !.obj = r]
  /\ UNCHANGED <<samplerVars, det, pure, loop, webVars>>

ObjectLeaves ==
  /\ ~IsFlat(video)
  /\ video' = [video EXCEPT !.obj = NoObj]
  /\ UNCHANGED <<samplerVars, det, pure, loop, webVars>>

(* the guard forgetting the height *)
SkipsFrame_WidthOnly(v) == v.videoWidth = 0

(* video.videoWidth === 0 || video.videoHeight === 0 *)
SkipsFrame(v) == v.videoWidth = 0 \/ v.videoHeight = 0

(* this.phoneDetected where `this` is the exports object: undefined, falsy *)
ThisPhoneDetected == FALSE

NextParity == 1 - tick.parity

detectPhone ==
  /\ UNCHANGED <<video, thisBinding, det, pure, loop, webVars>>
  /\ IF SkipsFrame(video)
       THEN /\ tick' = [outcome |-> "skipped", present |-> FALSE, parity |-> NextParity]
            /\ UNCHANGED <<phoneDetected, showPhoneToast, hideTimers, canvas>>
       ELSE LET imageData == getImageData(video)
                present == detectRectangularObject(imageData)
            IN /\ canvas' = [width |-> video.videoWidth, height |-> video.videoHeight]
               /\ IF thisBinding = "undefined"
                    THEN /\ tick' = [outcome |-> "threw", present |-> present,
                                     parity |-> NextParity]
                         /\ UNCHANGED <<phoneDetected, showPhoneToast, hideTimers>>
                    ELSE /\ tick' = [outcome |-> "done", present |-> present,
                                     parity |-> NextParity]
                         /\ IF present /\ ~ThisPhoneDetected
                              THEN /\ hideTimers < MaxTimers
                                   /\ phoneDetected' = TRUE
                                   /\ showPhoneToast' = TRUE
                                   /\ hideTimers' = hideTimers + 1
                              ELSE IF ~present /\ ThisPhoneDetected
                                THEN /\ phoneDetected' = FALSE
                                     /\ UNCHANGED <<showPhoneToast, hideTimers>>
                                ELSE UNCHANGED <<phoneDetected, showPhoneToast, hideTimers>>

(* the setTimeout callback of detectPhone, 5 seconds after a notification *)
HideToast ==
  /\ hideTimers > 0
  /\ hideTimers' = hideTimers - 1
  /\ showPhoneToast' = FALSE
  /\ UNCHANGED <<video, thisBinding, phoneDetected, canvas, tick, det, pure, loop, webVars>>

(* onClose of the Toast *)
CloseToast ==
  /\ showPhoneToast
  /\ showPhoneToast' = FALSE
  /\ UNCHANGED <<video, thisBinding, phoneDetected, hideTimers, canvas, tick, det, pure, loop, webVars>>

Next ==
  \/ VideoResized
  \/ ObjectAppears
  \/ ObjectLeaves
  \/ detectPhone
  \/ HideToast
  \/ CloseToast

Spec == Init /\ [][Next]_vars

(***************************************************************************)
(* CamSpec: the life of a CameraRecorder.  cam.pending counts the          *)
(* getUserMedia promises in flight, cam.stream and cam.srcObject name a    *)
(* MediaStream (0 = null), cam.intervals holds the ids of the intervals    *)
(* the browser still runs and cam.intervalRef is detectionIntervalRef      *)
(* (0 = null).  A state update made after the await is rendered at once    *)
(* (cam.syncSetState) or batched with the one that follows it, depending   *)
(* on the React in use.  The <video> and <canvas> exist only in the view   *)
(* rendered for hasPermission = true.  cam.live holds the MediaStreams     *)
(* whose tracks have not been stopped.                                     *)
(***************************************************************************)
DetectionPeriod == 2000

RefsAttached(c) == c.mounted /\ c.hasPermission = "true"

(* clearInterval(id): a no-op for an id that is not running *)
clearInterval(ids, id) == ids \ {id}

FreshInterval(ids) ==
  IF \E id \in 1..MaxIntervals : id \notin ids
    THEN CHOOSE id \in 1..MaxIntervals : id \notin ids
    ELSE MaxIntervals

(* if (detectionIntervalRef.current) clearInterval(...); ... = setInterval(..., 2000) *)
startPhoneDetection(c) ==
  LET cleared == clearInterval(c.intervals, c.intervalRef)
      id == FreshInterval(cleared)
  IN [c EXCEPT !.intervals = cleared \cup {id}, !.intervalRef = id,
               !.period = DetectionPeriod]

(* a cleanup that leaves the interval running *)
EffectCleanup_Leaks(c) == c

(* return () => { if (detectionIntervalRef.current) clearInterval(...) } *)
EffectCleanup(c) == [c EXCEPT !.intervals = clearInterval(c.intervals, c.intervalRef)]

(* useEffect(..., [hasPermission, stream]) *)
DetectionEffect(c) ==
  IF c.hasPermission = "true" /\ c.stream # 0 /\ RefsAttached(c)
    THEN startPhoneDetection(c)
    ELSE c

(* a render with new state: the effect's cleanup and body run when a dependency changed *)
Commit(c, hasPermission, stream) ==
  LET next == [c EXCEPT !.hasPermission = hasPermission, !.stream = stream]
  IN IF ~c.mounted THEN c
     ELSE IF <<hasPermission, stream>> = <<c.hasPermission, c.stream>> THEN c
     ELSE DetectionEffect(EffectCleanup(next))

NewStream(c) == (c.stream % MaxStreams) + 1

(* requestCameraPermission after a successful await *)
PermissionGranted(c) ==
  LET ms == NewStream(c)
      got == [c EXCEPT !.live = @ \cup {ms}]
      rendered == IF c.syncSetState
                    THEN Commit(Commit(got, c.hasPermission, ms), "true", ms)
                    ELSE got
      withSrc == IF RefsAttached(rendered)
                   THEN [rendered EXCEPT !.srcObject = ms] ELSE rendered
  IN IF c.syncSetState THEN withSrc ELSE Commit(withSrc, "true", ms)

(* requestCameraPermission in its catch *)
PermissionDenied(c) == Commit(c, "false", c.stream)

(* the mount effect calls requestCameraPermission: once, or twice under StrictMode *)
CamMounted(sync, strict) ==
  [CamIdle EXCEPT !.mounted = TRUE, !.syncSetState = sync,
                  !.pending = IF strict THEN 2 ELSE 1]

CamInit ==
  /\ video = FlatVideo(0, 0, Black)
  /\ SamplerInit
  /\ det = NotCalled
  /\ pure = PureIdle
  /\ loop = LoopIdle
  /\ \E sync \in BOOLEAN, strict \in BOOLEAN : cam = CamMounted(sync, strict)
  /\ srv = SrvIdle
  /\ app = AppIdle
  /\ dom = DomIdle
  /\ sp = SpIdle

CamUnchanged ==
  UNCHANGED <<video, samplerVars, det, pure, loop, srv, app, dom, sp>>

GetUserMediaResolves ==
  /\ cam.pending > 0
  /\ \E ok \in BOOLEAN :
       LET c == [cam EXCEPT !.pending = cam.pending - 1]
       IN cam' = IF ok THEN PermissionGranted(c) ELSE PermissionDenied(c)
  /\ CamUnchanged

(* onClick of Enable Camera, rendered while hasPermission is false *)
EnableCamera ==
  /\ cam.mounted
  /\ cam.hasPermission = "false"
  /\ cam.pending < MaxPending
  /\ cam' = [cam EXCEPT !.pending = cam.pending + 1]
  /\ CamUnchanged

(* the cleanup of the mount effect, whose closure is that of the first     *)
(* render: if (stream) stream.getTracks().forEach(track => track.stop())   *)
MountCleanup(c) ==
  LET stream == CamIdle.stream
  IN EffectCleanup([c EXCEPT !.live = IF stream # 0 THEN @ \ {stream} ELSE @])

(* the cleanups of both effects *)
Unmount ==
  /\ cam.mounted
  /\ cam' = [MountCleanup(EffectCleanup(cam)) EXCEPT !.mounted = FALSE]
  /\ CamUnchanged

(* the <video> starts to play the stream it was given *)
FrameArrives ==
  /\ cam.srcObject # 0
  /\ RefsAttached(cam)
  /\ video.videoWidth = 0
  /\ \E r \in BrightPixels(SampleW, SampleH) :
       video' = [FlatVideo(SampleW, SampleH, Black) EXCEPT !.obj = r]
  /\ UNCHANGED <<samplerVars, det, pure, loop, webVars>>

(* the callback of setInterval; detectPhone returns at once without refs *)
IntervalFires ==
  /\ cam.intervals # {}
  /\ RefsAttached(cam)
  /\ detectPhone

CamNext ==
  \/ GetUserMediaResolves
  \/ EnableCamera
  \/ Unmount
  \/ FrameArrives
  \/ IntervalFires
  \/ HideToast
  \/ CloseToast

CamSpec == CamInit /\ [][CamNext]_vars

(***************************************************************************)
(* The interview server.  JSON values are records: t is what typeof        *)
(* gives; a string is its text (core), a count of surrounding blanks (pad) *)
(* that trim removes, and an index n telling the texts of one bank apart.  *)
(***************************************************************************)
JsUndefined == [t |-> "undefined", pad |-> 0, core |-> "", n |-> 0]

JsNumber(n) == [t |-> "number", pad |-> 0, core |-> "", n |-> n]

JsString(pad, core) == [t |-> "string", pad |-> pad, core |-> core, n |-> 0]

JsText(core, n) == [t |-> "string", pad |-> 0, core |-> core, n |-> n]

(* !v is false *)
Truthy(v) ==
  CASE v.t = "undefined" -> FALSE
    [] v.t = "number" -> v.n # 0
    [] v.t = "string" -> v.pad > 0 \/ v.core # ""
    [] OTHER -> TRUE

trim(v) == [v EXCEPT !.pad = 0]

IsEmptyString(v) == v.t = "string" /\ v.pad = 0 /\ v.core = ""

(* one entry of a question array *)
Question(id, question, difficulty, category) ==
  [isNull |-> FALSE, id |-> id, question |-> question,
   difficulty |-> difficulty, category |-> category]

NullEntry == [Question(JsUndefined, JsUndefined, JsUndefined, JsUndefined) EXCEPT !.isNull = TRUE]

JsArray(items) == [kind |-> "array", items |-> items]

JsFunction == [kind |-> "function", items |-> <<>>]

(***************************************************************************)
(* generateFallbackQuestions: questionBank[domain] || questionBank.default *)
(* The bank is an object literal: besides its six own keys, a lookup finds *)
(* what Object.prototype holds (constructor, toString, ...), a function.   *)
(***************************************************************************)
BankKeys ==
  {"Web Development", "Data Science", "AI/ML", "Product Management",
   "UI/UX Design", "Cybersecurity", "default"}

InheritedKeys == {"constructor", "toString", "valueOf", "hasOwnProperty"}

BankSize == 7

Difficulty(i) == IF i <= 2 THEN "easy" ELSE IF i <= 5 THEN "medium" ELSE "hard"

BankList(key) ==
  JsArray([i \in 1..BankSize |->
             Question(JsNumber(i), JsText(key, i), JsString(0, Difficulty(i)),
                      JsString(0, "category"))])

generateFallbackQuestions(domain) ==
  IF domain.pad = 0 /\ domain.core \in BankKeys THEN BankList(domain.core)
  ELSE IF domain.pad = 0 /\ domain.core \in InheritedKeys THEN JsFunction
  ELSE BankList("default")

(***************************************************************************)
(* POST /api/generate-questions.  body.domain is the request's domain, ai  *)
(* what the AI path does when it is taken: generateContent or text()       *)
(* throws (apiKey: the message contains 'API key'), or the cleaned text    *)
(* parses or not, to an array or to something else.  The session id is     *)
(* Date.now().toString(): the server's clock in milliseconds.              *)
(***************************************************************************)
AiThrows(apiKey) ==
  [kind |-> "throws", apiKey |-> apiKey, parses |-> FALSE, isArray |-> FALSE, items |-> <<>>]

AiText(parses, isArray, items) ==
  [kind |-> "text", apiKey |-> FALSE, parses |-> parses, isArray |-> isArray, items |-> items]

(* res.json: JSON.stringify leaves out a property whose value is a function *)
ToJson(questions) == IF questions.kind = "function" THEN Absent ELSE questions

(* q && typeof q.id === 'number' && typeof q.question === 'string' && ... *)
IsValidQuestion(q) ==
  /\ ~q.isNull
  /\ q.id.t = "number"
  /\ q.question.t = "string"
  /\ q.difficulty.t = "string"
  /\ q.category.t = "string"

MaxQuestions == 7

(* .slice(0, 7) *)
FirstSeven(items) ==
  SubSeq(items, 1, IF Len(items) < MaxQuestions THEN Len(items) ELSE MaxQuestions)

validQuestions(items) == FirstSeven(SelectSeq(items, IsValidQuestion))

NewSession(domain, questions) ==
  [domain |-> domain, questions |-> questions, answers |-> <<>>]

(* interviewSessions.set(sessionId, ...) *)
SetSession(sessions, id, session) ==
  [k \in (DOMAIN sessions) \cup {id} |-> IF k = id THEN session ELSE sessions[k]]

Respond(s, route, status) == [s EXCEPT !.res = [NoResponse EXCEPT !.route = route, !.status = status]]

(* store the session under Date.now() and answer { sessionId, questions } *)
StoreAndAnswer(s, domain, questions) ==
  [s EXCEPT !.sessions = SetSession(s.sessions, s.now, NewSession(domain, questions)),
            !.res = [NoResponse EXCEPT !.route = "generate", !.status = 200,
                                       !.sessionId = s.now,
                                       !.questions = ToJson(questions)]]

(* error.message && error.message.includes('API key') *)
ApiKeyError(ai) == ai.kind = "throws" /\ ai.apiKey

DomainRejected(domain) ==
  \/ ~Truthy(domain)
  \/ domain.t # "string"
  \/ IsEmptyString(trim(domain))

(* how the AI path of a generate-questions request went *)
QuestionsFailure(s, ai) ==
  IF ~s.model THEN "no-model"
  ELSE IF ai.kind = "throws" THEN (IF ai.apiKey THEN "api-key" ELSE "throws")
  ELSE IF ~ai.parses \/ ~ai.isArray \/ SelectSeq(ai.items, IsValidQuestion) = <<>>
    THEN "malformed"
  ELSE "none"

generateQuestions(s, domain, ai) ==
  LET answered ==
      IF DomainRejected(domain) THEN Respond(s, "generate", 400)
      ELSE IF ~s.model
        THEN StoreAndAnswer(s, trim(domain), generateFallbackQuestions(trim(domain)))
      ELSE IF ai.kind = "throws"
        THEN IF ApiKeyError(ai) THEN Respond(s, "generate", 500)
             ELSE StoreAndAnswer(s, trim(domain), generateFallbackQuestions(trim(domain)))
      ELSE IF ai.parses /\ ai.isArray /\ Len(validQuestions(ai.items)) > 0
        THEN StoreAndAnswer(s, trim(domain), JsArray(validQuestions(ai.items)))
      ELSE StoreAndAnswer(s, trim(domain), generateFallbackQuestions(trim(domain)))
  IN [answered EXCEPT !.req = [NoRequest EXCEPT !.domain = domain,
                                                !.failure = QuestionsFailure(s, ai)]]

(***************************************************************************)
(* SrvSpec: requests to POST /api/generate-questions, with the model       *)
(* configured or not at start-up.  The domains and AI answers sent:        *)
(***************************************************************************)
Domains ==
  {JsUndefined, JsNumber(5), JsString(0, ""), JsString(1, ""),
   JsString(1, "Web Development"), JsString(0, "Rust"), JsString(0, "constructor")}

EntryKinds == {"good", "null", "stringId", "noCategory"}

Entry(kind, i) ==
  LET good == Question(JsNumber(i), JsText("ai", i), JsString(0, "medium"),
                       JsString(0, "category"))
  IN CASE kind = "null" -> NullEntry
       [] kind = "stringId" -> [good EXCEPT !.id = JsString(0, "1")]
       [] kind = "noCategory" -> [good EXCEPT !.category = JsUndefined]
       [] OTHER -> good

(* arrays of up to MaxShort entries, at most one of them invalid *)
ShortArrays ==
  UNION {{[i \in 1..n |-> Entry(IF i = at THEN kind ELSE "good", i)] :
            at \in 0..n, kind \in EntryKinds \ {"good"}} : n \in 0..MaxShort}

(* arrays of 7 to MaxLong entries, the first of them valid or null *)
LongArrays ==
  {[i \in 1..n |-> Entry(IF i = 1 THEN first ELSE "good", i)] :
     n \in MaxQuestions..MaxLong, first \in {"good", "null"}}

AiFailures ==
  {AiThrows(TRUE), AiThrows(FALSE), AiText(FALSE, FALSE, <<>>), AiText(TRUE, FALSE, <<>>)}

AiQuestionOutcomes ==
  AiFailures \cup {AiText(TRUE, TRUE, a) : a \in ShortArrays \cup LongArrays}

(* the requests sent: every AI answer for one domain, a thrown error and a
   good answer for the others; without a model the AI is not called *)
GenerateRequests(s) ==
  IF ~s.model THEN Domains \X {AiThrows(FALSE)}
  ELSE ({JsString(1, "Web Development")} \X AiQuestionOutcomes)
       \cup (Domains \X {AiThrows(FALSE), AiText(TRUE, TRUE, <<Entry("good", 1)>>)})

SrvStarted(model) == [SrvIdle EXCEPT !.model = model]

SrvInit ==
  /\ video = FlatVideo(0, 0, Black)
  /\ SamplerInit
  /\ thisBinding = "undefined"
  /\ det = NotCalled
  /\ pure = PureIdle
  /\ loop = LoopIdle
  /\ cam = CamIdle
  /\ \E model \in BOOLEAN : srv = SrvStarted(model)
  /\ app = AppIdle
  /\ dom = DomIdle
  /\ sp = SpIdle

SrvUnchanged == UNCHANGED <<video, samplerVars, det, pure, loop, cam, app, dom, sp>>

(* Date.now() moves on *)
ClockAdvances ==
  /\ srv.now < MaxClock
  /\ srv' = [srv EXCEPT !.now = srv.now + 1]
  /\ SrvUnchanged

PostGenerateQuestions ==
  /\ \E r \in GenerateRequests(srv) :
       srv' = generateQuestions(srv, r[1], r[2])
  /\ SrvUnchanged

SrvNext ==
  \/ ClockAdvances
  \/ PostGenerateQuestions

SrvSpec == SrvInit /\ [][SrvNext]_vars

(***************************************************************************)
(* POST /api/evaluate-answer.  body holds sessionId, questionId, answer    *)
(* and question; an answer string has n words.  ai is what the AI path     *)
(* does: it throws, or its cleaned text parses or not, to null or to an    *)
(* object with a score and the other fields present or not.  r is the     *)
(* value Math.random() returns, in RandomSteps-ths.                        *)
(***************************************************************************)
EvalThrows ==
  [kind |-> "throws", parses |-> FALSE, isNull |-> FALSE, score |-> JsUndefined,
   feedback |-> FALSE, arrays |-> FALSE]

EvalText(parses, isNull, score, feedback, arrays) ==
  [kind |-> "text", parses |-> parses, isNull |-> isNull, score |-> score,
   feedback |-> feedback, arrays |-> arrays]

Body(sessionId, questionId, answer, question) ==
  [sessionId |-> sessionId, questionId |-> questionId, answer |-> answer,
   question |-> question]

(* the id a session id string stands for; other values are the key of no session *)
SessionKey(v) == IF v.t = "string" /\ v.core = "sid" THEN v.n ELSE 0

SessionIdString(id) == JsText("sid", id)

(* interviewSessions.get(sessionId) is not undefined *)
HasSession(s, v) == SessionKey(v) \in DOMAIN s.sessions

(* the check of the fields without the question *)
MissingFields_QuestionOptional(body) ==
  \/ ~Truthy(body.sessionId)
  \/ ~Truthy(body.questionId)
  \/ ~Truthy(body.answer)

(* !sessionId || !questionId || !answer || !question *)
MissingFields(body) ==
  \/ ~Truthy(body.sessionId)
  \/ ~Truthy(body.questionId)
  \/ ~Truthy(body.answer)
  \/ ~Truthy(body.question)

(* Math.floor(Math.random() * range) + low *)
RandomScore(r, range, low) == ((r * range) \div RandomSteps) + low

(* answer.trim().split(/\s+/).length: the empty string splits into one piece *)
WordCount(answer) == IF IsEmptyString(trim(answer)) THEN 1 ELSE answer.n

(* Math.min(8, Math.max(4, Math.floor(wordCount / 10) + 4)) *)
LengthScore(wordCount) ==
  LET raised == IF (wordCount \div 10) + 4 > 4 THEN (wordCount \div 10) + 4 ELSE 4
  IN IF raised < 8 THEN raised ELSE 8

(* a score passed on as the AI gave it *)
ClampScore_Unclamped(score) == score

(* Math.max(0, Math.min(10, evaluation.score)) *)
ClampScore(score) == IF score < 0 THEN 0 ELSE IF score > 10 THEN 10 ELSE score

Evaluation(score, source, wordCount) ==
  [score |-> score, source |-> source, wordCount |-> wordCount]

(* session.answers.push(...) and res.json(evaluation) *)
PushAndAnswer(s, body, evaluation) ==
  LET id == SessionKey(body.sessionId)
      entry == [questionId |-> body.questionId, question |-> body.question,
                answer |-> body.answer, evaluation |-> evaluation]
  IN [s EXCEPT !.sessions[id].answers = Append(@, entry),
               !.res = [NoResponse EXCEPT !.route = "evaluate", !.status = 200,
                                          !.sessionId = id,
                                          !.evaluation = evaluation]]

ValidEvaluation(ai) ==
  /\ ai.parses
  /\ ~ai.isNull
  /\ ai.score.t = "number"
  /\ ai.feedback
  /\ ai.arrays

(* how the AI path of an evaluate-answer request went *)
EvaluationFailure(s, ai) ==
  IF ~s.model THEN "no-model"
  ELSE IF ai.kind = "throws" THEN "throws"
  ELSE IF ~ValidEvaluation(ai) THEN "malformed"
  ELSE "none"

evaluateAnswer(s, body, ai, r) ==
  LET answered ==
      IF MissingFields(body) THEN Respond(s, "evaluate", 400)
      ELSE IF ~HasSession(s, body.sessionId) THEN Respond(s, "evaluate", 404)
      ELSE IF ~s.model
        THEN PushAndAnswer(s, body, Evaluation(RandomScore(r, 4, 5), "no-model", 0))
      ELSE IF ai.kind = "throws"
        THEN IF body.answer.t = "string"
               THEN PushAndAnswer(s, body,
                      Evaluation(LengthScore(WordCount(body.answer)), "exception",
                                 WordCount(body.answer)))
               ELSE Respond(s, "evaluate", 500)
      ELSE IF ValidEvaluation(ai)
        THEN PushAndAnswer(s, body, Evaluation(ClampScore(ai.score.n), "ai", 0))
      ELSE PushAndAnswer(s, body, Evaluation(RandomScore(r, 3, 6), "parse", 0))
  IN [answered EXCEPT !.req = [NoRequest EXCEPT !.failure = EvaluationFailure(s, ai),
                                                !.body = body]]

(***************************************************************************)
(* JavaScript numbers in the results arithmetic.  A non-negative double is *)
(* [bits, e]: the significand as a sequence of bits, most significant      *)
(* first, of at most Precision bits, and the exponent of its last bit; its *)
(* value is the integer written by bits times 2^e (<<>> is 0).  Division   *)
(* and multiplication give the exact result rounded to Precision bits,     *)
(* ties to even, as IEEE 754 double arithmetic does.                       *)
(***************************************************************************)
Precision == 53

RECURSIVE IntToBits(_)
IntToBits(n) == IF n = 0 THEN <<>> ELSE Append(IntToBits(n \div 2), n % 2)

RECURSIVE BitsToInt(_)
BitsToInt(bits) ==
  IF bits = <<>> THEN 0
  ELSE 2 * BitsToInt(SubSeq(bits, 1, Len(bits) - 1)) + bits[Len(bits)]

Zeros(k) == [i \in 1..k |-> 0]

StripLeadingZeros(bits) ==
  IF \A i \in DOMAIN bits : bits[i] = 0 THEN <<>>
  ELSE LET first == CHOOSE i \in DOMAIN bits :
                      bits[i] = 1 /\ \A j \in 1..(i - 1) : bits[j] = 0
       IN SubSeq(bits, first, Len(bits))

(* the arithmetic below works on chunks of ChunkBits bits at a time *)
ChunkBits == 8

ChunkBase == 2 ^ ChunkBits

ChunkToBits(c) == [i \in 1..ChunkBits |-> (c \div (2 ^ (ChunkBits - i))) % 2]

(* bits with zeros in front up to a whole number of chunks *)
Chunked(bits) == Zeros((ChunkBits - (Len(bits) % ChunkBits)) % ChunkBits) \o bits

ChunkAt(bits, k) == BitsToInt(SubSeq(bits, (k - 1) * ChunkBits + 1, k * ChunkBits))

(* long division of the integer written by bits by the small integer d *)
RECURSIVE DivBitsIter(_, _, _, _, _)
DivBitsIter(bits, d, k, r, q) ==
  IF k * ChunkBits > Len(bits) THEN [q |-> q, r |-> r]
  ELSE LET cur == ChunkBase * r + ChunkAt(bits, k)
       IN DivBitsIter(bits, d, k + 1, cur % d, q \o ChunkToBits(cur \div d))

DivBits(bits, d) == DivBitsIter(Chunked(bits), d, 1, 0, <<>>)

(* the integer written by bits times the small integer m *)
RECURSIVE MulBitsIter(_, _, _, _, _)
MulBitsIter(bits, m, k, carry, acc) ==
  IF k = 0 THEN IntToBits(carry) \o acc
  ELSE LET t == ChunkAt(bits, k) * m + carry
       IN MulBitsIter(bits, m, k - 1, t \div ChunkBase, ChunkToBits(t % ChunkBase) \o acc)

MulBits(bits, m) ==
  LET chunked == Chunked(bits)
  IN MulBitsIter(chunked, m, Len(chunked) \div ChunkBits, 0, <<>>)

(* the integer written by bits, plus one *)
Increment(bits) ==
  IF \A i \in DOMAIN bits : bits[i] = 1 THEN <<1>> \o Zeros(Len(bits))
  ELSE LET last == CHOOSE i \in DOMAIN bits :
                     bits[i] = 0 /\ \A j \in (i + 1)..Len(bits) : bits[j] = 1
       IN [i \in DOMAIN bits |-> IF i < last THEN bits[i] ELSE IF i = last THEN 1 ELSE 0]

(* round the exact value bits * 2^e (plus a lower part when sticky) to Precision bits *)
RoundToPrecision(bits, e, sticky) ==
  IF Len(bits) <= Precision THEN [bits |-> bits, e |-> e]
  ELSE LET keep == SubSeq(bits, 1, Precision)
           roundBit == bits[Precision + 1]
           rest == sticky \/ \E i \in (Precision + 2)..Len(bits) : bits[i] = 1
           up == roundBit = 1 /\ (rest \/ keep[Precision] = 1)
           rounded == IF up THEN Increment(keep) ELSE keep
           shift == Len(bits) - Precision
       IN IF Len(rounded) > Precision
            THEN [bits |-> SubSeq(rounded, 1, Precision), e |-> e + shift + 1]
            ELSE [bits |-> rounded, e |-> e + shift]

DoubleOfInt(n) == [bits |-> IntToBits(n), e |-> 0]

GuardBits == Precision + 6

(* x / d for a small positive integer d *)
DoubleDiv(x, d) ==
  LET res == DivBits(x.bits \o Zeros(GuardBits), d)
  IN RoundToPrecision(StripLeadingZeros(res.q), x.e - GuardBits, res.r # 0)

(* x * m for a small positive integer m *)
DoubleMul(x, m) == RoundToPrecision(StripLeadingZeros(MulBits(x.bits, m)), x.e, FALSE)

(* the integer nearest to bits * 2^e, a half going up *)
RoundHalfUp(bits, e) ==
  IF e >= 0 THEN BitsToInt(StripLeadingZeros(bits) \o Zeros(e))
  ELSE LET padded == Zeros(-e) \o bits
           whole == SubSeq(padded, 1, Len(padded) + e)
           half == padded[Len(padded) + e + 1]
       IN BitsToInt(StripLeadingZeros(whole)) + half

(* Math.round(x) *)
MathRound(x) == RoundHalfUp(x.bits, x.e)

(* x.toFixed(1), in tenths: the n for which n / 10 is nearest to x, the larger of two *)
toFixed1(x) == RoundHalfUp(MulBits(x.bits, 10), x.e)

(***************************************************************************)
(* GET /api/results/:sessionId.  averageScore is answered in tenths, as    *)
(* the one decimal that parseFloat(averageScore.toFixed(1)) keeps.         *)
(***************************************************************************)
RECURSIVE TotalScore(_)
TotalScore(answers) ==
  IF answers = <<>> THEN 0
  ELSE TotalScore(SubSeq(answers, 1, Len(answers) - 1))
         + answers[Len(answers)].evaluation.score

(* session.questions.length; the length of the function Object is 1 *)
QuestionsLength(questions) == IF questions.kind = "function" THEN 1 ELSE Len(questions.items)

(* the questions asked taken for the questions answered *)
AnsweredQuestions_Total(session) == QuestionsLength(session.questions)

(* session.answers.length *)
AnsweredQuestions(session) == Len(session.answers)

getResults(s, sessionId) ==
  LET answered ==
      IF ~Truthy(sessionId) THEN Respond(s, "results", 400)
      ELSE IF ~HasSession(s, sessionId) THEN Respond(s, "results", 404)
      ELSE LET session == s.sessions[SessionKey(sessionId)]
               totalScore == TotalScore(session.answers)
               averageScore == IF Len(session.answers) > 0
                                 THEN DoubleDiv(DoubleOfInt(totalScore), Len(session.answers))
                                 ELSE DoubleOfInt(0)
               percentage == MathRound(DoubleMul(DoubleDiv(averageScore, 10), 100))
           IN [s EXCEPT !.res = [NoResponse EXCEPT
                 !.route = "results", !.status = 200,
                 !.sessionId = SessionKey(sessionId),
                 !.results = [totalQuestions |-> QuestionsLength(session.questions),
                              answeredQuestions |-> AnsweredQuestions(session),
                              averageScore |-> toFixed1(averageScore),
                              percentage |-> percentage]]]
  IN [answered EXCEPT !.req = [NoRequest EXCEPT !.body.sessionId = sessionId]]

(***************************************************************************)
(* EvalSpec: answers evaluated with the model configured or not, for the   *)
(* session created at millisecond 1.  The requests sent:                   *)
(***************************************************************************)
Words(n) == JsText("answer", n)

GoodBody(answer) == Body(SessionIdString(1), JsNumber(1), answer, JsString(0, "q"))

Answers == {Words(1), Words(60), JsNumber(42)}

RejectedBodies ==
  {[GoodBody(Words(1)) EXCEPT !.sessionId = JsUndefined],
   [GoodBody(Words(1)) EXCEPT !.questionId = JsUndefined],
   [GoodBody(Words(1)) EXCEPT !.questionId = JsNumber(0)],
   [GoodBody(Words(1)) EXCEPT !.answer = JsUndefined],
   [GoodBody(Words(1)) EXCEPT !.answer = JsString(0, "")],
   [GoodBody(Words(1)) EXCEPT !.question = JsUndefined],
   [GoodBody(Words(1)) EXCEPT !.sessionId = SessionIdString(MaxClock + 1)],
   [GoodBody(Words(1)) EXCEPT !.sessionId = JsNumber(1)]}

AiScores == {-3, 7, 12}

EvalOutcomes ==
  {EvalThrows,
   EvalText(FALSE, FALSE, JsUndefined, FALSE, FALSE),
   EvalText(TRUE, TRUE, JsUndefined, FALSE, FALSE),
   EvalText(TRUE, FALSE, JsString(0, "7"), TRUE, TRUE),
   EvalText(TRUE, FALSE, JsNumber(7), TRUE, FALSE)}
    \cup {EvalText(TRUE, FALSE, JsNumber(n), TRUE, TRUE) : n \in AiScores}

(* every AI answer for the one-word answer, a thrown error and a good
   answer for the others; without a model the AI is not called *)
EvaluateRequests(s) ==
  IF ~s.model THEN (RejectedBodies \cup {GoodBody(a) : a \in Answers}) \X {EvalThrows}
  ELSE ({GoodBody(Words(1))} \X EvalOutcomes)
       \cup ((RejectedBodies \cup {GoodBody(a) : a \in Answers})
               \X {EvalThrows, EvalText(TRUE, FALSE, JsNumber(7), TRUE, TRUE)})

(* the values of Math.random() that a request can draw *)
RandomDraws(s, ai) ==
  IF ~s.model \/ (ai.kind = "text" /\ ~ValidEvaluation(ai))
    THEN 0..(RandomSteps - 1) ELSE {0}

AnswersBelow(s, limit) == \A k \in DOMAIN s.sessions : Len(s.sessions[k].answers) < limit

Evaluate(requests, limit) ==
  /\ AnswersBelow(srv, limit)
  /\ \E q \in requests : \E r \in RandomDraws(srv, q[2]) :
       srv' = evaluateAnswer(srv, q[1], q[2], r)
  /\ SrvUnchanged

Generate(domains) ==
  /\ \E domain \in domains : srv' = generateQuestions(srv, domain, AiThrows(FALSE))
  /\ SrvUnchanged

Results(ids) ==
  /\ \E id \in ids : srv' = getResults(srv, SessionIdString(id))
  /\ SrvUnchanged

RejectedDomains == {JsUndefined, JsNumber(5), JsString(1, "")}

EvalNext ==
  \/ Generate(RejectedDomains \cup {JsString(1, "Web Development")})
  \/ Evaluate(EvaluateRequests(srv), MaxEvalAnswers)
  \/ Results({1, MaxClock + 1})

EvalSpec == SrvInit /\ [][EvalNext]_vars

(***************************************************************************)
(* ResSpec: a session answered without a model, and its results.           *)
(***************************************************************************)
ResInit ==
  /\ video = FlatVideo(0, 0, Black)
  /\ SamplerInit
  /\ thisBinding = "undefined"
  /\ det = NotCalled
  /\ pure = PureIdle
  /\ loop = LoopIdle
  /\ cam = CamIdle
  /\ srv = SrvStarted(FALSE)
  /\ app = AppIdle
  /\ dom = DomIdle
  /\ sp = SpIdle

ResNext ==
  \/ Generate({JsString(0, "Rust"), JsString(0, "constructor")})
  \/ Evaluate({<<GoodBody(Words(1)), EvalThrows>>}, MaxAnswers)
  \/ Results({1, MaxClock + 1})

ResSpec == ResInit /\ [][ResNext]_vars

(***************************************************************************)
(* The App and the server it calls.  A handler runs from the event to its  *)
(* finally block: while isLoading the views accept no further input.  A    *)
(* fetch either is rejected (the network) or reaches the server, whose     *)
(* handler answers it.                                                     *)
(***************************************************************************)
Pair(a, s) == [app |-> a, srv |-> s]

(* the catch and finally blocks of a handler *)
Caught(a, name, fetched, message) ==
  [a EXCEPT !.error = message, !.isLoading = FALSE,
            !.handler = name, !.fetched = fetched]

handleDomainSelect(a, s, domain, ai, net) ==
  LET name == "handleDomainSelect"
      s2 == generateQuestions(s, domain, ai)
  IN IF ~net THEN Pair(Caught(a, name, <<"network">>, "generate"), s)
     ELSE IF s2.res.status # 200 THEN Pair(Caught(a, name, <<"status">>, "generate"), s2)
     ELSE IF s2.res.sessionId = 0 \/ s2.res.questions.kind # "array"
       THEN Pair(Caught(a, name, <<"format">>, "generate"), s2)
     ELSE Pair([a EXCEPT !.sessionId = s2.res.sessionId,
                         !.questions = s2.res.questions.items,
                         !.currentQuestionIndex = 0,
                         !.appState = "interview",
                         !.error = "", !.isLoading = FALSE,
                         !.handler = name, !.fetched = <<"ok">>], s2)

(* fetchResults catches its own errors; fetched is the list so far.  The   *)
(* server's 200 body always has a numeric averageScore.                    *)
fetchResults(a, s, net, fetched) ==
  LET s2 == getResults(s, SessionIdString(a.sessionId))
  IN IF ~net
       THEN Pair([a EXCEPT !.error = "results", !.fetched = Append(fetched, "network")], s)
     ELSE IF s2.res.status # 200
       THEN Pair([a EXCEPT !.error = "results", !.fetched = Append(fetched, "status")], s2)
     ELSE Pair([a EXCEPT !.results = [isNull |-> FALSE, data |-> s2.res.results],
                         !.appState = "results",
                         !.fetched = Append(fetched, "ok")], s2)

(* the App moving on without the last-question test *)
IsLastQuestion_Never(a) == FALSE

(* !(currentQuestionIndex < questions.length - 1) *)
IsLastQuestion(a) == ~(a.currentQuestionIndex < Len(a.questions) - 1)

handleAnswer(a, s, answer, ai, r, net, net2) ==
  LET name == "handleAnswer"
      started == [a EXCEPT !.error = "", !.handler = name]
      currentQuestion == a.questions[a.currentQuestionIndex + 1]
      body == Body(SessionIdString(a.sessionId), currentQuestion.id, answer,
                   currentQuestion.question)
      s2 == evaluateAnswer(s, body, ai, r)
  IN IF ~net THEN Pair(Caught(a, name, <<"network">>, "evaluate"), s)
     ELSE IF s2.res.status # 200 THEN Pair(Caught(a, name, <<"status">>, "evaluate"), s2)
     ELSE IF s2.res.evaluation.source = "none"
       THEN Pair(Caught(a, name, <<"format">>, "evaluate"), s2)
     ELSE IF ~IsLastQuestion(a)
       THEN Pair([started EXCEPT !.currentQuestionIndex = a.currentQuestionIndex + 1,
                                 !.isLoading = FALSE, !.fetched = <<"ok">>], s2)
     ELSE LET done == fetchResults(started, s2, net2, <<"ok">>)
          IN Pair([done.app EXCEPT !.isLoading = FALSE], done.srv)

handleRestart(a) == [AppIdle EXCEPT !.handler = "handleRestart"]

AppDomains == {JsString(0, "Rust"), JsString(0, "constructor")}

AppQuestionOutcomes(s) ==
  IF ~s.model THEN {AiThrows(FALSE)}
  ELSE {AiThrows(TRUE), AiThrows(FALSE),
        AiText(TRUE, TRUE, <<Entry("good", 1)>>),
        AiText(TRUE, TRUE, <<Entry("good", 0), Entry("good", 1)>>)}

AppEvalOutcomes(s) ==
  IF ~s.model THEN {EvalThrows}
  ELSE {EvalThrows, EvalText(TRUE, FALSE, JsNumber(7), TRUE, TRUE)}

(* the random scores a session of the App draws *)
AppDraws(s) == IF ~s.model THEN {0, RandomSteps - 1} ELSE {0}

AppInit ==
  /\ video = FlatVideo(0, 0, Black)
  /\ SamplerInit
  /\ thisBinding = "undefined"
  /\ det = NotCalled
  /\ pure = PureIdle
  /\ loop = LoopIdle
  /\ cam = CamIdle
  /\ \E model \in BOOLEAN : srv = SrvStarted(model)
  /\ app = AppIdle
  /\ dom = DomIdle
  /\ sp = SpIdle

AppUnchanged == UNCHANGED <<video, samplerVars, det, pure, loop, cam, dom, sp>>

(* DomainSelection's submit button *)
DomainSelected ==
  /\ app.error = ""
  /\ app.appState = "domain-selection"
  /\ ~app.isLoading
  /\ \E domain \in AppDomains : \E ai \in AppQuestionOutcomes(srv) : \E net \in BOOLEAN :
       LET next == handleDomainSelect(app, srv, domain, ai, net)
       IN app' = next.app /\ srv' = next.srv
  /\ AppUnchanged

(* InterviewQuestion's submit button *)
AnswerSubmitted ==
  /\ app.error = ""
  /\ app.appState = "interview"
  /\ ~app.isLoading
  /\ app.currentQuestionIndex + 1 \in DOMAIN app.questions
  /\ \E ai \in AppEvalOutcomes(srv) : \E r \in AppDraws(srv) : \E net, net2 \in BOOLEAN :
       LET next == handleAnswer(app, srv, Words(1), ai, r, net, net2)
       IN app' = next.app /\ srv' = next.srv
  /\ AppUnchanged

(* Try Again of the error card, Start New Interview of Results *)
Restarted ==
  /\ app.error # "" \/ app.appState = "results"
  /\ app' = handleRestart(app)
  /\ UNCHANGED srv
  /\ AppUnchanged

AppNext ==
  \/ DomainSelected
  \/ AnswerSubmitted
  \/ Restarted

AppSpec == AppInit /\ [][AppNext]_vars

(***************************************************************************)
(* DomSpec: the DomainSelection component from its mount to the call of    *)
(* onDomainSelect, after which the App replaces it.                        *)
(***************************************************************************)
MinTopicLength == 3

Presets ==
  {"Web Development", "Data Science", "AI & Machine Learning", "Product Management",
   "UI/UX Design", "Cybersecurity"}

Texts == UNION {[1..n -> {" ", "x"}] : n \in 0..MaxTopic}

RECURSIVE trimStart(_)
trimStart(text) ==
  IF text = <<>> \/ Head(text) # " " THEN text ELSE trimStart(Tail(text))

RECURSIVE trimEnd(_)
trimEnd(text) ==
  IF text = <<>> \/ text[Len(text)] # " " THEN text
  ELSE trimEnd(SubSeq(text, 1, Len(text) - 1))

trimText(text) == trimEnd(trimStart(text))

(* a form that takes a custom topic of any length *)
TooShort_Never(d) == FALSE

(* useCustomDomain && customDomain.trim().length < 3 *)
TooShort(d) == d.useCustomDomain /\ Len(trimText(d.customDomain)) < MinTopicLength

(* !domainToUse *)
NoDomain(d) ==
  IF d.useCustomDomain THEN trimText(d.customDomain) = <<>> ELSE d.selectedDomain = ""

DomHandleSubmit(d) ==
  LET started == [d EXCEPT !.error = "", !.handler = "handleSubmit", !.called = NotInvoked]
      domainToUse ==
        IF d.useCustomDomain
          THEN [made |-> TRUE, preset |-> "", text |-> trimText(d.customDomain)]
          ELSE [made |-> TRUE, preset |-> d.selectedDomain, text |-> NoText]
  IN IF NoDomain(d) THEN [started EXCEPT !.error = "select"]
     ELSE IF TooShort(d) THEN [started EXCEPT !.error = "short"]
     ELSE IF ~d.isLoading THEN [started EXCEPT !.called = domainToUse]
     ELSE started

(* the submit button is not disabled *)
SubmitEnabled(d) ==
  ~((d.selectedDomain = "" /\ trimText(d.customDomain) = <<>>) \/ d.isLoading)

DomInit ==
  /\ video = FlatVideo(0, 0, Black)
  /\ SamplerInit
  /\ thisBinding = "undefined"
  /\ det = NotCalled
  /\ pure = PureIdle
  /\ loop = LoopIdle
  /\ cam = CamIdle
  /\ srv = SrvIdle
  /\ app = AppIdle
  /\ dom = DomIdle
  /\ sp = SpIdle

DomUnchanged == UNCHANGED <<video, samplerVars, det, pure, loop, cam, srv, app, sp>>

PresetModeClicked ==
  /\ dom' = [dom EXCEPT !.useCustomDomain = FALSE, !.customDomain = NoText, !.error = "",
                        !.handler = "preset", !.called = NotInvoked]
  /\ DomUnchanged

CustomModeClicked ==
  /\ dom' = [dom EXCEPT !.useCustomDomain = TRUE, !.selectedDomain = "", !.error = "",
                        !.handler = "custom", !.called = NotInvoked]
  /\ DomUnchanged

TopicTyped ==
  /\ dom.useCustomDomain /\ ~dom.isLoading
  /\ \E text \in Texts :
       dom' = [dom EXCEPT !.customDomain = text, !.handler = "typed", !.called = NotInvoked]
  /\ DomUnchanged

PresetPicked ==
  /\ ~dom.useCustomDomain /\ ~dom.isLoading
  /\ \E name \in Presets :
       dom' = [dom EXCEPT !.selectedDomain = name, !.handler = "picked", !.called = NotInvoked]
  /\ DomUnchanged

(* the submit; handleDomainSelect of the App starts with setIsLoading(true) *)
FormSubmitted ==
  /\ SubmitEnabled(dom)
  /\ dom' = [DomHandleSubmit(dom) EXCEPT
               !.isLoading = dom.isLoading \/ DomHandleSubmit(dom).called.made]
  /\ DomUnchanged

(* the App leaves the domain-selection view, or shows its error card, and  *)
(* mounts a new DomainSelection later *)
DomainSelectionReplaced ==
  /\ dom.isLoading
  /\ dom' = DomIdle
  /\ DomUnchanged

DomNext ==
  \/ PresetModeClicked
  \/ CustomModeClicked
  \/ TopicTyped
  \/ PresetPicked
  \/ FormSubmitted
  \/ DomainSelectionReplaced

DomSpec == DomInit /\ [][DomNext]_vars

(***************************************************************************)
(* SpeechSpec: InterviewQuestion with its SpeechRecognition child over the *)
(* questions of one interview.  A handler and the render and effects that  *)
(* follow it are one step.                                                 *)
(***************************************************************************)
(* new SpeechRecognition() with the handlers of this render *)
NewRecognition(s) ==
  [status |-> "new", instance |-> s.instance, isListening |-> s.isListening,
   finalTranscript |-> s.finalTranscript]

(* recognitionRef.current.stop(): an object that was started ends later *)
StopRecognition(s) ==
  IF s.recognition.status = "started"
    THEN [s EXCEPT !.recognition.status = "stopped",
                   !.ending = Append(@, [instance |-> s.recognition.instance,
                                         isListening |-> s.recognition.isListening,
                                         finalTranscript |-> s.recognition.finalTranscript,
                                         erred |-> FALSE])]
    ELSE s

(* clearTimeout(silenceTimerRef.current) of the component instance i *)
ClearSilenceTimer(s, i) == [s EXCEPT !.timers = {t \in @ : t.instance # i}]

(* the cleanup of the effect *)
SpeechCleanup(s) == ClearSilenceTimer(StopRecognition(s), s.instance)

(* the render after a handler: the effect runs again when isListening or   *)
(* finalTranscript changed, or when InterviewQuestion rendered and passed  *)
(* a new handleTranscript *)
SpeechEffect(before, after) ==
  IF /\ after.questionAnimationComplete
     /\ \/ after.isListening # before.isListening
        \/ after.finalTranscript # before.finalTranscript
        \/ after.currentAnswer # before.currentAnswer
        \/ after.isLoading # before.isLoading
    THEN [SpeechCleanup(after) EXCEPT !.recognition = NewRecognition(after)]
    ELSE after

(* is the component instance i still mounted *)
Mounted(s, i) == s.questionAnimationComplete /\ s.instance = i

handleTranscript(s, transcript) == [s EXCEPT !.currentAnswer = transcript]

startListening(s) ==
  IF s.recognition.status # "null" /\ ~s.isListening
    THEN IF s.recognition.status = "new"
           THEN [s EXCEPT !.finalTranscript = <<>>, !.recognition.status = "started",
                          !.isListening = TRUE]
           ELSE [s EXCEPT !.finalTranscript = <<>>]
    ELSE s

stopListening(s) ==
  IF s.recognition.status # "null" /\ s.isListening
    THEN LET stopped == [StopRecognition(s) EXCEPT !.isListening = FALSE]
             told == IF s.finalTranscript # <<>>
                       THEN handleTranscript(stopped, s.finalTranscript)
                       ELSE stopped
         IN ClearSilenceTimer(told, s.instance)
    ELSE s

(* onresult of the object o with one final segment *)
onresult(s, o, word) ==
  LET final == IF Mounted(s, o.instance)
                 THEN [s EXCEPT !.finalTranscript = Append(@, word)]
                 ELSE s
  IN [ClearSilenceTimer(final, o.instance) EXCEPT
        !.timers = @ \cup {[instance |-> o.instance, isListening |-> o.isListening,
                            text |-> Append(o.finalTranscript, word)]}]

(* onend of the object o *)
onend(s, o) ==
  LET ended == IF Mounted(s, o.instance) THEN [s EXCEPT !.isListening = FALSE] ELSE s
      told == IF o.finalTranscript # <<>>
                THEN handleTranscript(ended, o.finalTranscript)
                ELSE ended
  IN ClearSilenceTimer(told, o.instance)

(* onerror of the object o *)
onerror(s, o, kind) ==
  IF kind = "aborted" THEN s
  ELSE ClearSilenceTimer(IF Mounted(s, o.instance) THEN [s EXCEPT !.isListening = FALSE]
                         ELSE s, o.instance)

(* the callback given to setTimeout in onresult *)
SilenceTimer(s, t) ==
  IF t.isListening /\ t.text # <<>> THEN handleTranscript(s, t.text) ELSE s

IqHandleSubmit(s) ==
  IF s.currentAnswer # <<>> /\ ~s.isLoading
    THEN [s EXCEPT !.currentAnswer = <<>>, !.questionAnimationComplete = FALSE]
    ELSE s

Without(seq, i) == [j \in 1..(Len(seq) - 1) |-> IF j < i THEN seq[j] ELSE seq[j + 1]]

SpeechInit ==
  /\ video = FlatVideo(0, 0, Black)
  /\ SamplerInit
  /\ thisBinding = "undefined"
  /\ det = NotCalled
  /\ pure = PureIdle
  /\ loop = LoopIdle
  /\ cam = CamIdle
  /\ srv = SrvIdle
  /\ app = AppIdle
  /\ dom = DomIdle
  /\ sp = SpIdle

SpeechUnchanged == UNCHANGED <<video, samplerVars, det, pure, loop, cam, srv, app, dom>>

(* the question has been typed out: the answer section is rendered and a   *)
(* SpeechRecognition instance mounts *)
AnimationCompletes ==
  /\ ~sp.questionAnimationComplete
  /\ LET shown == [sp EXCEPT !.questionAnimationComplete = TRUE, !.instance = @ + 1,
                             !.isListening = FALSE, !.finalTranscript = <<>>,
                             !.heard = <<>>, !.sinceFinal = "none",
                             !.handler = "onComplete"]
     IN sp' = [shown EXCEPT !.recognition = NewRecognition(shown)]
  /\ SpeechUnchanged

StartClicked ==
  /\ sp.questionAnimationComplete /\ ~sp.isLoading /\ ~sp.isListening
  /\ Len(sp.ending) < MaxEnding
  /\ sp' = [SpeechEffect(sp, startListening(sp)) EXCEPT
              !.heard = <<>>, !.sinceFinal = "none", !.handler = "startListening"]
  /\ SpeechUnchanged

StopClicked ==
  /\ sp.questionAnimationComplete /\ ~sp.isLoading /\ sp.isListening
  /\ sp' = [SpeechEffect(sp, stopListening(sp)) EXCEPT !.handler = "stopListening"]
  /\ SpeechUnchanged

(* the recognition service returns a final result for the audio it has *)
ResultArrives ==
  /\ sp.spoken < MaxFinals
  /\ \E i \in 1..Len(sp.ending) :
       LET o == sp.ending[i]
           word == sp.spoken + 1
           after == SpeechEffect(sp, onresult(sp, o, word))
       IN sp' = [after EXCEPT
                   !.spoken = word,
                   !.heard = IF Mounted(sp, o.instance) THEN Append(@, word) ELSE @,
                   !.sinceFinal = IF Mounted(sp, o.instance) THEN "waiting" ELSE @,
                   !.handler = "onresult"]
  /\ SpeechUnchanged

EndArrives ==
  /\ \E i \in 1..Len(sp.ending) :
       LET gone == [sp EXCEPT !.ending = Without(@, i)]
       IN sp' = [SpeechEffect(sp, onend(gone, sp.ending[i])) EXCEPT !.handler = "onend"]
  /\ SpeechUnchanged

ErrorArrives ==
  /\ \E i \in 1..Len(sp.ending), kind \in {"aborted", "no-speech"} :
       /\ ~sp.ending[i].erred
       /\ LET seen == [sp EXCEPT !.ending[i].erred = TRUE]
          IN sp' = [SpeechEffect(sp, onerror(seen, sp.ending[i], kind)) EXCEPT
                      !.handler = "onerror"]
  /\ SpeechUnchanged

(* two seconds have passed since the last final result *)
SilenceElapses ==
  /\ sp.sinceFinal = "waiting"
  /\ LET due == {t \in sp.timers : t.instance = sp.instance}
         fired == IF due = {} THEN sp
                  ELSE SilenceTimer(ClearSilenceTimer(sp, sp.instance), CHOOSE t \in due : TRUE)
     IN sp' = [SpeechEffect(sp, fired) EXCEPT !.sinceFinal = "elapsed",
                                              !.handler = "silence"]
  /\ SpeechUnchanged

(* a timer left by an instance that is no longer mounted *)
OrphanTimerFires ==
  /\ \E t \in sp.timers :
       /\ t.instance # sp.instance \/ ~sp.questionAnimationComplete
       /\ sp' = [SpeechEffect(sp, SilenceTimer([sp EXCEPT !.timers = @ \ {t}], t)) EXCEPT
                   !.handler = "timer"]
  /\ SpeechUnchanged

(* the submit button; handleAnswer of the App starts with setIsLoading(true) *)
SubmitClicked ==
  /\ sp.questionAnimationComplete /\ sp.currentAnswer # <<>> /\ ~sp.isLoading
  /\ sp' = [SpeechCleanup(IqHandleSubmit(sp)) EXCEPT
              !.isLoading = TRUE, !.boundary = sp.spoken, !.handler = "handleSubmit"]
  /\ SpeechUnchanged

(* handleAnswer of the App ends: the next question, isLoading false *)
NextQuestion ==
  /\ sp.isLoading /\ sp.question < MaxAsked
  /\ sp' = [SpeechEffect(sp, [sp EXCEPT !.isLoading = FALSE, !.question = @ + 1]) EXCEPT
              !.handler = "handleAnswer"]
  /\ SpeechUnchanged

SpeechNext ==
  \/ AnimationCompletes
  \/ StartClicked
  \/ StopClicked
  \/ ResultArrives
  \/ EndArrives
  \/ ErrorArrives
  \/ SilenceElapses
  \/ OrphanTimerFires
  \/ SubmitClicked
  \/ NextQuestion

SpeechSpec == SpeechInit /\ [][SpeechNext]_vars

(***************************************************************************)
(* The gradient as section 4 of the specification writes it, over          *)
(* P(i, j), the red channel of the pixel (i, j) of the scene.              *)
(***************************************************************************)
P(v, i, j) == PixelColour(v, i, j)[1]

SobelGx(v, x, y) ==
  (0 - P(v, x - 1, y - 1)) + P(v, x + 1, y - 1) - 2 * P(v, x - 1, y) + 2 * P(v, x + 1, y)
  - P(v, x - 1, y + 1) + P(v, x + 1, y + 1)

SobelGy(v, x, y) ==
  (0 - P(v, x - 1, y - 1)) - 2 * P(v, x, y - 1) - P(v, x + 1, y - 1)
  + P(v, x - 1, y + 1) + 2 * P(v, x, y + 1) + P(v, x + 1, y + 1)

SobelSquare(v, x, y) == SobelGx(v, x, y) * SobelGx(v, x, y) + SobelGy(v, x, y) * SobelGy(v, x, y)

Interior(v) == (1..(v.videoWidth - 2)) \X (1..(v.videoHeight - 2))

SobelEdges(v) ==
  {q \in Interior(v) : SobelSquare(v, q[1], q[2]) > EdgeThreshold * EdgeThreshold}

Area(v) == v.videoWidth * v.videoHeight

(* C1: the edge count of the detector is the number of interior pixels
   1 <= x <= W-2, 1 <= y <= H-2 whose red-channel Sobel gradient has
   gx*gx + gy*gy > 2500, and no border pixel is counted. *)
C1_EdgeCountIsSobelCount ==
  det.called =>
    /\ det.edgeCount = Cardinality(SobelEdges(video))
    /\ EdgePixels(getImageData(video)) = SobelEdges(video)

(* a frame with counted edges and an interior pixel of magnitude exactly 50 *)
C1_Witness ==
  /\ det.called
  /\ det.edgeCount >= 1
  /\ \E q \in Interior(video) :
       SobelSquare(video, q[1], q[2]) = EdgeThreshold * EdgeThreshold

(* C2: the detector returns true exactly when 2*W*H < 100*edgeCount and
   100*edgeCount < 15*W*H, the denominator being the whole frame area; a
   ratio of exactly 0.02 or exactly 0.15 gives false. *)
C2_BandIsStrict ==
  det.called =>
    (det.present <=> (2 * Area(video) < 100 * det.edgeCount
                      /\ 100 * det.edgeCount < 15 * Area(video)))

(* a frame whose ratio is exactly 0.15 *)
C2_Witness ==
  /\ det.called
  /\ Area(video) > 0
  /\ 100 * det.edgeCount = 15 * Area(video)
  /\ ~det.present

LoopPixels(v) == LoopXs(v.videoWidth) \X LoopYs(v.videoHeight)

Degenerate(v) == v.videoWidth = 0 \/ v.videoHeight = 0

(* C3: a frame with W = 0 or H = 0 yields present = false without error:
   the detector's loop body never runs on it, and detectPhone skips the
   computation and leaves phoneDetected and showPhoneToast (and the canvas
   and the hide timers) as they were. *)
C3_DegenerateFrame ==
  /\ [](Degenerate(video) =>
          /\ LoopPixels(video) = {}
          /\ ReadIndices(getImageData(video)) = {}
          /\ ~detectRectangularObject(getImageData(video)))
  /\ [][(tick' # tick /\ Degenerate(video)) =>
          /\ tick'.outcome = "skipped"
          /\ ~tick'.present
          /\ UNCHANGED <<phoneDetected, showPhoneToast, hideTimers, canvas>>]_vars

(* a tick skipped on a zero-width frame while the toast is showing *)
C3_Witness ==
  /\ tick.outcome = "skipped"
  /\ video.videoWidth = 0
  /\ video.videoHeight > 0
  /\ phoneDetected
  /\ showPhoneToast

InteriorGradientsZero(v) ==
  \A q \in Interior(v) :
    /\ Gx(getImageData(v).data, v.videoWidth, q[1], q[2]) = 0
    /\ Gy(getImageData(v).data, v.videoWidth, q[1], q[2]) = 0

(* C4: on a frame whose pixels all have the same colour, gx = gy = 0 at
   every interior pixel, edgeCount = 0 and the detector returns false. *)
C4_FlatFrameAbsent ==
  (det.called /\ IsFlat(video)) =>
    /\ InteriorGradientsZero(video)
    /\ det.edgeCount = 0
    /\ ~det.present

(* the 10x10 frame of flat gray 128 *)
C4_Witness ==
  /\ det.called
  /\ video = FlatVideo(10, 10, Gray128)

(* C5 as stated: every 3x3 frame has zero evaluated interior pixels,
   edgeCount = 0 and the detector returns false. *)
C5_Original ==
  (det.called /\ video.videoWidth = 3 /\ video.videoHeight = 3) =>
    /\ LoopPixels(video) = {}
    /\ det.edgeCount = 0
    /\ ~det.present

(* C5 amended: a 3x3 frame has exactly one evaluated pixel, its centre
   (1, 1); edgeCount is 0 or 1 and the detector returns true exactly when
   the centre is an edge (1/9 lies inside the band).  The frames with no
   evaluated pixel are those with W <= 2 or H <= 2: there edgeCount = 0 and
   the detector returns false. *)
C5_MinimumSize ==
  det.called =>
    /\ (video.videoWidth = 3 /\ video.videoHeight = 3) =>
         /\ LoopPixels(video) = {<<1, 1>>}
         /\ det.edgeCount \in {0, 1}
         /\ det.present <=> (SobelSquare(video, 1, 1) > EdgeThreshold * EdgeThreshold)
    /\ (video.videoWidth <= 2 \/ video.videoHeight <= 2) =>
         /\ LoopPixels(video) = {}
         /\ det.edgeCount = 0
         /\ ~det.present

(* a 3x3 frame on which the detector reports an object *)
C5_Witness ==
  /\ det.called
  /\ video.videoWidth = 3
  /\ video.videoHeight = 3
  /\ det.edgeCount = 1
  /\ det.present

RedOnly(imageData) ==
  [imageData EXCEPT !.data =
     [i \in DOMAIN imageData.data |->
        IF (i - 1) % Channels = 0 THEN imageData.data[i] ELSE 0]]

(* C6: the result depends on the red channel only: it is the result on the
   frame with the same red channel and green, blue and alpha all zero, so
   two frames of equal size that agree on red get the same result. *)
C6_RedChannelOnly ==
  det.called =>
    det.present = detectRectangularObject(RedOnly(getImageData(video)))

(* an object that differs from a black background in green, blue and alpha
   only, on a frame where a red object of that shape would be reported *)
C6_Witness ==
  /\ det.called
  /\ video.obj.kind = "rect"
  /\ video.obj.colour = Cyan
  /\ video.bg = Black
  /\ ~det.present
  /\ detectRectangularObject(getImageData([video EXCEPT !.obj.colour = White]))

(* C7: the detector is pure and stateless: a call on a frame bit-identical
   to the frame of any earlier call returns what that call returned,
   whatever calls were made in between; a call leaves its buffer as it was
   and changes neither the frame nor any component state. *)
C7_DetectorIsPure ==
  /\ [](pure.intact)
  /\ []((pure.last.called /\ pure.memo.called
          /\ getImageData(pure.memo.frame) = getImageData(video))
         => pure.last.present = pure.memo.present)
  /\ [][pure.last.called' =>
          UNCHANGED <<video, thisBinding, phoneDetected, showPhoneToast, hideTimers,
                      canvas, tick>>]_vars

(* a second call on the frame of a remembered call that reported an object *)
C7_Witness ==
  /\ pure.last.called
  /\ pure.memo.called
  /\ getImageData(pure.memo.frame) = getImageData(video)
  /\ pure.memo.present
  /\ pure.lastCount = 1
  /\ pure.intact

WellFormed(imageData) ==
  /\ imageData.width >= 1
  /\ imageData.height >= 1
  /\ DOMAIN imageData.data = 1..(Channels * imageData.width * imageData.height)
  /\ \A i \in DOMAIN imageData.data : imageData.data[i] \in 0..MaxChannel

Running == loop.pc \in {"outer", "inner", "ratio"}

Returned == loop.pc = "returned"

(* C8: on a well-formed frame (W >= 1, H >= 1, 4*W*H values in 0..255)
   every index the detector reads lies in [0, 4*W*H), the double loop
   terminates, and a boolean is returned: the value of the band test on
   the edges counted. *)
C8_DetectorIsTotal ==
  /\ [](loop.readsOk /\ loop.present \in BOOLEAN)
  /\ [](Returned =>
          /\ WellFormed(getImageData(video)) =>
               ReadIndices(getImageData(video)) \subseteq 0..(Channels * Area(video) - 1)
          /\ loop.edgeCount = EdgeCountOf(getImageData(video))
          /\ loop.present = detectRectangularObject(getImageData(video)))
  /\ (Running ~> Returned)

(* a call that returned after reading the first and the last pixel *)
C8_Witness ==
  /\ Returned
  /\ WellFormed(getImageData(video))
  /\ 0 \in ReadIndices(getImageData(video))
  /\ (Channels * Area(video) - Channels) \in ReadIndices(getImageData(video))
  /\ loop.edgeCount > 0
  /\ loop.present

IsCheckerboard(v) == v.obj.kind = "checker" /\ v.videoWidth >= 3 /\ v.videoHeight >= 3

(* C9 as stated: on a checkerboard of black and white 1-pixel cells the
   gradient magnitude exceeds 50 at the interior pixels, so that the upper
   bound 0.15 is what makes a large frame absent. *)
C9_Original ==
  (det.called /\ IsCheckerboard(video)) =>
    /\ 2 * det.edgeCount > Cardinality(Interior(video))
    /\ (video.videoWidth >= 5 /\ video.videoHeight >= 5) =>
         100 * det.edgeCount > 15 * Area(video)

(* C9 amended: on a checkerboard of black and white 1-pixel cells the
   pixels two columns (or two rows) apart have the same colour, so
   gx = gy = 0 at every interior pixel, edgeCount = 0, and the detector
   returns false because the ratio 0 is not above the lower bound 0.02. *)
C9_CheckerboardHasNoEdges ==
  (det.called /\ IsCheckerboard(video)) =>
    /\ InteriorGradientsZero(video)
    /\ det.edgeCount = 0
    /\ ~RatioGreater(EdgeRatio(getImageData(video)), RatioLow)
    /\ RatioLess(EdgeRatio(getImageData(video)), RatioHigh)
    /\ ~det.present

(* the 10x10 checkerboard, whose 64 interior pixels are 0.64 of the frame *)
C9_Witness ==
  /\ det.called
  /\ IsCheckerboard(video)
  /\ video.videoWidth = 10
  /\ video.videoHeight = 10
  /\ P(video, 1, 1) = 0
  /\ P(video, 2, 1) = MaxChannel

(* one interior pixel of red 255 whose eight neighbours have red 0 *)
SingleBrightPixel(v) ==
  /\ v.obj.kind = "rect"
  /\ v.obj.x0 = v.obj.x1
  /\ v.obj.y0 = v.obj.y1
  /\ <<v.obj.x0, v.obj.y0>> \in Interior(v)
  /\ P(v, v.obj.x0, v.obj.y0) = MaxChannel
  /\ v.bg[1] = 0

GradientAt(v, x, y) ==
  <<Gx(getImageData(v).data, v.videoWidth, x, y), Gy(getImageData(v).data, v.videoWidth, x, y)>>

(* C10 as stated: the gradient computed for the bright pixel is non-zero. *)
C10_Original ==
  (det.called /\ SingleBrightPixel(video)) =>
    GradientAt(video, video.obj.x0, video.obj.y0) # <<0, 0>>

(* C10 amended: the kernels have no centre coefficient, so the gradient
   computed for the bright pixel itself is gx = gy = 0; the non-zero
   gradients are those of its interior neighbours: (-510, 0) to its right,
   (510, 0) to its left, (0, -510) below, (0, 510) above and
   (+-255, +-255) on the diagonals. *)
C10_BrightPixelGradient ==
  (det.called /\ SingleBrightPixel(video)) =>
    LET x == video.obj.x0
        y == video.obj.y0
        At(dx, dy, g) == (<<x + dx, y + dy>> \in Interior(video)) =>
                           GradientAt(video, x + dx, y + dy) = g
    IN /\ GradientAt(video, x, y) = <<0, 0>>
       /\ At(1, 0, <<0 - 2 * MaxChannel, 0>>)
       /\ At(-1, 0, <<2 * MaxChannel, 0>>)
       /\ At(0, 1, <<0, 0 - 2 * MaxChannel>>)
       /\ At(0, -1, <<0, 2 * MaxChannel>>)
       /\ At(1, 1, <<0 - MaxChannel, 0 - MaxChannel>>)
       /\ At(-1, -1, <<MaxChannel, MaxChannel>>)
       /\ At(1, -1, <<0 - MaxChannel, MaxChannel>>)
       /\ At(-1, 1, <<MaxChannel, 0 - MaxChannel>>)

(* a bright pixel all of whose eight neighbours are interior pixels too *)
C10_Witness ==
  /\ det.called
  /\ SingleBrightPixel(video)
  /\ \A dx \in {-1, 1}, dy \in {-1, 1} :
       <<video.obj.x0 + dx, video.obj.y0 + dy>> \in Interior(video)
  /\ det.edgeCount = 8

(***************************************************************************)
(* The notification of the sampler.  A detectPhone run changes tick; it    *)
(* notifies when it calls setShowPhoneToast(true) and schedules the hide   *)
(* timeout, which is the one place where hideTimers grows.                 *)
(***************************************************************************)
Ticked == tick' # tick

Notified == Ticked /\ hideTimers' = hideTimers + 1

(* C11: a tick notifies only when the detector returned true on it and the
   stored result of the previous detection (phoneDetected) was false; a
   tick on which the detector returns true right after a tick on which it
   returned true does not notify. *)
C11_NotifyOnRisingEdge ==
  [][/\ Notified => (tick'.present /\ ~phoneDetected)
     /\ (Ticked /\ tick.outcome = "done" /\ tick.present /\ tick'.present)
          => ~Notified]_vars

(* C12: the hide timeouts run out in the order they were set, so with two
   pending the one running out belongs to the earlier notification; a
   visible toast is hidden only by the timeout of the latest notification,
   the only one still pending. *)
C12_OwnVisibilityWindow ==
  [][(hideTimers' < hideTimers /\ showPhoneToast) => hideTimers = 1]_vars

(* C13: at most one detection interval is scheduled at any moment, it is
   the one detectionIntervalRef names and it runs every 2 seconds; it is
   scheduled, and detectPhone runs, only while the component is mounted
   with camera permission granted and a stream held. *)
C13_SingleDetectionTimer ==
  /\ [](/\ Cardinality(cam.intervals) <= 1
        /\ cam.intervals # {} =>
             /\ cam.intervals = {cam.intervalRef}
             /\ cam.period = DetectionPeriod
             /\ cam.mounted
             /\ cam.hasPermission = "true"
             /\ cam.stream # 0)
  /\ [][Ticked => /\ cam.intervals # {}
                  /\ cam.mounted /\ cam.hasPermission = "true" /\ cam.stream # 0]_vars

(* the interval restarted for a second stream, and the detector ran on a frame *)
C13_Witness ==
  /\ cam.intervals # {}
  /\ cam.stream = 2
  /\ tick.outcome \in {"done", "threw"}

(***************************************************************************)
(* The static question table as the server documents it: the bank of the   *)
(* domain, or the default bank for a domain that has none.                 *)
(***************************************************************************)
StaticTable(domain) ==
  IF trim(domain).core \in BankKeys THEN BankList(trim(domain).core) ELSE BankList("default")

GenerateAnswered == srv.res.route = "generate"

(* C14: a generate-questions request with a non-blank string domain whose
   AI path fails (no model, a thrown error, a malformed response) is
   answered 200 with a session id and the questions of the static table,
   and the session is stored with them. *)
C14_FallsBackOnAnyFailure ==
  (GenerateAnswered /\ ~DomainRejected(srv.req.domain) /\ srv.req.failure # "none") =>
    /\ srv.res.status = 200
    /\ srv.res.sessionId \in DOMAIN srv.sessions
    /\ srv.res.questions = StaticTable(srv.req.domain)
    /\ srv.sessions[srv.res.sessionId].questions = StaticTable(srv.req.domain)

(* C17: a 200 answer of generate-questions carries 1 to 7 questions, each
   with a numeric id and string question, difficulty and category, and the
   session stored under the id answered holds exactly these questions and
   no answers. *)
C17_QuestionListShape ==
  (GenerateAnswered /\ srv.res.status = 200) =>
    /\ srv.res.questions.kind = "array"
    /\ Len(srv.res.questions.items) \in 1..MaxQuestions
    /\ \A i \in DOMAIN srv.res.questions.items : IsValidQuestion(srv.res.questions.items[i])
    /\ srv.res.sessionId \in DOMAIN srv.sessions
    /\ srv.sessions[srv.res.sessionId].questions = srv.res.questions
    /\ srv.sessions[srv.res.sessionId].answers = <<>>

(***************************************************************************)
(* The evaluate-answer route.                                              *)
(***************************************************************************)
EvaluateAnswered == srv.res.route = "evaluate"

Present(v) == v.t # "undefined"

AllFieldsGiven(body) ==
  /\ Truthy(body.sessionId)
  /\ Truthy(body.questionId)
  /\ Truthy(body.answer)
  /\ Truthy(body.question)

(* the evaluations stored in the sessions, and the one just returned *)
StoredEvaluations ==
  UNION {{srv.sessions[k].answers[i].evaluation : i \in DOMAIN srv.sessions[k].answers}
           : k \in DOMAIN srv.sessions}

ReturnedEvaluations ==
  IF EvaluateAnswered /\ srv.res.status = 200 THEN {srv.res.evaluation} ELSE {}

RecordedLast(id, evaluation) ==
  /\ id \in DOMAIN srv.sessions
  /\ srv.sessions[id].answers # <<>>
  /\ LET last == srv.sessions[id].answers[Len(srv.sessions[id].answers)]
     IN /\ last.evaluation = evaluation
        /\ last.answer = srv.req.body.answer
        /\ last.questionId = srv.req.body.questionId

(* C15: an evaluate-answer request for an existing session with all its   *)
(* fields, whose AI path failed (no model, a thrown call, an unparsable or *)
(* malformed answer), is answered 200 with an evaluation and the answer is *)
(* recorded in the session with that evaluation.                           *)
C15_EvaluationFallsBack ==
  (/\ EvaluateAnswered
   /\ AllFieldsGiven(srv.req.body)
   /\ SessionKey(srv.req.body.sessionId) \in DOMAIN srv.sessions
   /\ srv.req.failure # "none")
    => /\ srv.res.status = 200
       /\ srv.res.evaluation.source \in {"no-model", "parse", "exception"}
       /\ RecordedLast(SessionKey(srv.req.body.sessionId), srv.res.evaluation)

ScoreInRange(e) ==
  /\ e.score \in 0..10
  /\ e.source = "no-model" => e.score \in 5..8
  /\ e.source = "parse" => e.score \in 6..8
  /\ e.source = "exception" => e.score \in 4..8
  /\ e.source \in {"ai", "no-model", "parse", "exception"}

(* C16: every evaluation stored in a session and every evaluation returned *)
(* has a score in 0..10; the no-model fallback scores 5..8, the parse      *)
(* fallback 6..8 and the exception fallback 4..8.                          *)
C16_ScoresInRange ==
  \A e \in StoredEvaluations \cup ReturnedEvaluations : ScoreInRange(e)

(* an AI score above 10 was stored at 10, and a sixty-word answer was      *)
(* scored by its length *)
C16_Witness ==
  /\ \E e \in StoredEvaluations : e.source = "ai" /\ e.score = 10
  /\ \E e \in StoredEvaluations : e.source = "exception" /\ e.wordCount = 60

(* C18: a rejected request changes no session: generate-questions without  *)
(* a domain, with a non-string or a blank one answers 400; evaluate-answer *)
(* without one of its four fields answers 400 and for an unknown session   *)
(* 404; results for an unknown session answers 404.                        *)
C18_RejectionsChangeNothing ==
  [][/\ srv'.res.status \in {400, 404} => srv'.sessions = srv.sessions
     /\ (srv'.res.route = "generate"
         /\ (srv'.req.domain.t # "string" \/ srv'.req.domain.core = ""))
          => srv'.res.status = 400
     /\ (srv'.res.route = "evaluate"
         /\ (\/ ~Present(srv'.req.body.sessionId)
             \/ ~Present(srv'.req.body.questionId)
             \/ ~Present(srv'.req.body.answer)
             \/ ~Present(srv'.req.body.question)))
          => srv'.res.status = 400
     /\ (srv'.res.route = "evaluate"
         /\ AllFieldsGiven(srv'.req.body)
         /\ SessionKey(srv'.req.body.sessionId) \notin DOMAIN srv.sessions)
          => srv'.res.status = 404
     /\ (srv'.res.route = "results"
         /\ SessionKey(srv'.req.body.sessionId) \notin DOMAIN srv.sessions)
          => srv'.res.status = 404]_vars

(* a session with an answer exists and an evaluate-answer request for an   *)
(* unknown session was just answered 404 *)
C18_Witness ==
  /\ EvaluateAnswered
  /\ srv.res.status = 404
  /\ \E k \in DOMAIN srv.sessions : srv.sessions[k].answers # <<>>

(***************************************************************************)
(* The results route.                                                      *)
(***************************************************************************)
ResultsAnswered == srv.res.route = "results" /\ srv.res.status = 200

ResultsSession == srv.sessions[srv.res.sessionId]

RECURSIVE SumOfScores(_)
SumOfScores(answers) ==
  IF answers = <<>> THEN 0 ELSE Head(answers).evaluation.score + SumOfScores(Tail(answers))

Distance(a, b) == IF a >= b THEN a - b ELSE b - a

(* the integer nearest to num / den, a half going up *)
NearestHalfUp(num, den) == (2 * num + den) \div (2 * den)

(* k is an integer nearest to num / den *)
IsNearest(k, num, den) == 2 * Distance(k * den, num) <= den

CountsAgree ==
  /\ srv.res.results.answeredQuestions = Len(ResultsSession.answers)
  /\ srv.res.results.totalQuestions =
       IF ResultsSession.questions.kind = "array"
         THEN Len(ResultsSession.questions.items) ELSE 1

(* the results as the mean itself and its tenfold rounded *)
C19_ResultsAreExact ==
  ResultsAnswered =>
    LET n == Len(ResultsSession.answers)
        total == SumOfScores(ResultsSession.answers)
    IN /\ CountsAgree
       /\ n = 0 => srv.res.results.averageScore = 0 /\ srv.res.results.percentage = 0
       /\ n > 0 => /\ srv.res.results.averageScore * n = 10 * total
                   /\ srv.res.results.percentage = NearestHalfUp(10 * total, n)

(* C19: results for an existing session report the number of answers       *)
(* stored, the length of the stored questions, as averageScore the mean of *)
(* the stored scores rounded to one decimal and as percentage an integer   *)
(* of 0..100 nearest to ten times the mean (both 0 without answers), and   *)
(* change no session.                                                      *)
C19_ResultsAreRounded ==
  [][(ResultsAnswered)' =>
       /\ srv'.sessions = srv.sessions
       /\ CountsAgree'
       /\ LET n == Len(ResultsSession.answers)'
              total == SumOfScores(ResultsSession.answers)'
          IN /\ srv'.res.results.percentage \in 0..100
             /\ n = 0 => /\ srv'.res.results.averageScore = 0
                         /\ srv'.res.results.percentage = 0
             /\ n > 0 => /\ IsNearest(srv'.res.results.averageScore, 10 * total, n)
                         /\ IsNearest(srv'.res.results.percentage, 10 * total, n)]_vars

(* the results of four answers whose scores sum to 23: the mean is 5.75,   *)
(* answered as 5.8 with the percentage 57 *)
C19_Witness ==
  /\ ResultsAnswered
  /\ Len(ResultsSession.answers) = 4
  /\ SumOfScores(ResultsSession.answers) = 23
  /\ srv.res.results.averageScore = 58
  /\ srv.res.results.percentage = 57

(***************************************************************************)
(* The App.                                                                *)
(***************************************************************************)
HandlerRan(name) == app' # app /\ app'.handler = name

RequestFailed ==
  /\ HandlerRan("handleDomainSelect") \/ HandlerRan("handleAnswer")
  /\ \E i \in DOMAIN app'.fetched : app'.fetched[i] # "ok"

EvaluationSucceeded == HandlerRan("handleAnswer") /\ Head(app'.fetched) = "ok"

OnLastQuestion == app.currentQuestionIndex = Len(app.questions) - 1

AppViewsConsistent ==
  /\ app.appState = "results" => ~app.results.isNull
  /\ app.appState = "interview" =>
       0 <= app.currentQuestionIndex /\ app.currentQuestionIndex < Len(app.questions)

(* C20: a successful evaluation moves to the next question when the        *)
(* current one is not the last, and otherwise fetches the results and, the *)
(* fetch succeeding, shows them; a failed generate, evaluate or results    *)
(* request keeps appState and currentQuestionIndex and sets the error; in  *)
(* the results view results is not null and in the interview view          *)
(* 0 <= currentQuestionIndex < questions.length.                           *)
C20_AppFlow ==
  /\ []AppViewsConsistent
  /\ [][/\ (EvaluationSucceeded /\ ~OnLastQuestion) =>
             /\ app'.currentQuestionIndex = app.currentQuestionIndex + 1
             /\ app'.appState = "interview"
             /\ app'.error = ""
             /\ app'.fetched = <<"ok">>
        /\ (EvaluationSucceeded /\ OnLastQuestion) =>
             /\ Len(app'.fetched) = 2
             /\ srv'.res.route = "results" \/ app'.fetched[2] = "network"
             /\ app'.fetched[2] = "ok" =>
                  /\ app'.appState = "results"
                  /\ app'.results = [isNull |-> FALSE, data |-> srv'.res.results]
                  /\ app'.error = ""
        /\ RequestFailed =>
             /\ app'.appState = app.appState
             /\ app'.currentQuestionIndex = app.currentQuestionIndex
             /\ app'.error # ""]_vars

(* the results view after a session of seven questions *)
C20_Witness ==
  /\ app.appState = "results"
  /\ Len(app.questions) = 7
  /\ app.results.data.answeredQuestions = 7
  /\ app.fetched = <<"ok", "ok">>

(***************************************************************************)
(* DomainSelection.                                                        *)
(***************************************************************************)
Submitted == dom' # dom /\ dom'.handler = "handleSubmit"

NotBlank(text) == \E i \in 1..Len(text) : text[i] # " "

(* the text without its leading and trailing blanks *)
Stripped(text) ==
  IF NotBlank(text)
    THEN LET first == CHOOSE i \in 1..Len(text) :
                        text[i] # " " /\ \A j \in 1..(i - 1) : text[j] = " "
             last == CHOOSE i \in 1..Len(text) :
                       text[i] # " " /\ \A j \in (i + 1)..Len(text) : text[j] = " "
         IN [i \in 1..(last - first + 1) |-> text[first + i - 1]]
    ELSE <<>>

(* C22: onDomainSelect is called only with a non-empty domain, with a      *)
(* custom topic only when its trimmed length is at least 3, and never      *)
(* while isLoading; a submit without a domain or with a shorter custom     *)
(* topic sets the error and makes no call; the preset selection and the    *)
(* custom text are never both non-empty.                                   *)
C22_SubmitsValidDomain ==
  /\ [](~(dom.selectedDomain # "" /\ dom.customDomain # <<>>))
  /\ [][Submitted =>
          /\ dom'.called.made =>
               /\ ~dom.isLoading
               /\ IF dom.useCustomDomain
                    THEN /\ Len(dom'.called.text) >= 3
                         /\ dom'.called.text = Stripped(dom.customDomain)
                    ELSE /\ dom'.called.preset # ""
                         /\ dom'.called.preset = dom.selectedDomain
          /\ (\/ (dom.useCustomDomain /\ Len(Stripped(dom.customDomain)) < 3)
              \/ (~dom.useCustomDomain /\ dom.selectedDomain = ""))
               => dom'.error # "" /\ ~dom'.called.made]_vars

(* a custom topic of three characters between blanks was handed over *)
C22_Witness ==
  /\ dom.handler = "handleSubmit"
  /\ dom.called.made
  /\ dom.called.text = <<"x", " ", "x">>
  /\ dom.customDomain = <<" ", "x", " ", "x">>

(***************************************************************************)
(* SpeechRecognition and InterviewQuestion.                                *)
(***************************************************************************)
(* two seconds pass after a final result while the component is listening *)
SilencePassed ==
  sp.isListening /\ sp.sinceFinal = "waiting" /\ sp'.sinceFinal = "elapsed"

(* C21: while listening, a final result followed by two seconds without a  *)
(* further one delivers the complete transcript, all final text since      *)
(* listening started, to onTranscript, which stores it as currentAnswer.   *)
C21_SilenceDeliversTranscript ==
  [][SilencePassed => sp'.currentAnswer = sp.heard]_vars

(* C27: isListening = true implies that the current recognition object has *)
(* been started and not stopped.                                           *)
C27_ListeningMeansStarted ==
  sp.isListening => sp.recognition.status = "started"

(* C28: after a submit currentAnswer holds no speech captured before that  *)
(* submit: every word of it was heard after the last submit.               *)
C28_NoStaleAnswer ==
  \A i \in 1..Len(sp.currentAnswer) : sp.currentAnswer[i] > sp.boundary

(* C23: after each detection tick on a non-degenerate frame the stored     *)
(* phoneDetected equals the detector's result for that tick.               *)
C23_StoredResultFollowsDetector ==
  [][(Ticked /\ tick'.outcome # "skipped") => phoneDetected' = tick'.present]_vars

(***************************************************************************)
(* Sessions.                                                               *)
(***************************************************************************)
(* a generate-questions request was answered 200 in this step *)
SessionCreated ==
  /\ srv' # srv /\ srv'.now = srv.now
  /\ srv'.res.route = "generate" /\ srv'.res.status = 200

(* C24: every successful generate-questions request creates a session      *)
(* distinct from every existing one: the sessionId it answers is new and   *)
(* no stored session is overwritten.                                       *)
C24_SessionsAreDistinct ==
  [][SessionCreated =>
       /\ srv'.res.sessionId \notin DOMAIN srv.sessions
       /\ \A k \in DOMAIN srv.sessions :
            k \in DOMAIN srv'.sessions /\ srv'.sessions[k] = srv.sessions[k]]_vars

(* the recorded answers of session k given to the question id *)
AnswersTo(k, id) ==
  {i \in DOMAIN srv.sessions[k].answers : srv.sessions[k].answers[i].questionId = id}

(* C25: each session holds at most one recorded answer per question, and   *)
(* in the results view of the App the session shown has exactly one        *)
(* recorded answer for each of its questions.                              *)
C25_OneAnswerPerQuestion ==
  /\ \A k \in DOMAIN srv.sessions : \A i \in DOMAIN srv.sessions[k].answers :
       Cardinality(AnswersTo(k, srv.sessions[k].answers[i].questionId)) = 1
  /\ app.appState = "results" =>
       /\ app.sessionId \in DOMAIN srv.sessions
       /\ \A q \in DOMAIN app.questions :
            Cardinality(AnswersTo(app.sessionId, app.questions[q].id)) = 1

(* the App sent the current question, one of those generate-questions      *)
(* returned, with a non-empty answer and the session's id, and the last    *)
(* response is that of evaluate-answer *)
QuestionSubmitted == HandlerRan("handleAnswer") /\ srv'.res.route = "evaluate"

(* C26: a question returned by generate-questions, submitted with its id,  *)
(* its text, a non-empty answer and the session's id, is never rejected    *)
(* with 400.                                                               *)
C26_ReturnedQuestionsAnswerable ==
  [][QuestionSubmitted => srv'.res.status # 400]_vars

(***************************************************************************)
(* The capture device.                                                     *)
(***************************************************************************)
Released == cam.live = {} /\ cam.intervals = {}

(* C29: once CameraRecorder has unmounted after permission was granted,    *)
(* every track of the acquired stream is stopped, the detection interval   *)
(* is cleared, and no detector tick runs.                                  *)
C29_UnmountReleasesDevice ==
  /\ []((~cam.mounted /\ cam.hasPermission = "true") => Released)
  /\ [][~cam.mounted => tick' = tick]_vars

====
